---- MODULE Spec2Model ----
(***************************************************************************)
(* Model of the BskyBot scan cycle of twilightscapes/videobot              *)
(* (src/src/bot.ts, class BskyBot, lines 316-701): the two-tier duplicate  *)
(* guard, the bounded cache, the in-flight flag and the reply pipeline;    *)
(* of the event handler of FirehoseBot (src/unnamed/part_003, lines        *)
(* 330-722); of URLUtils.extractVideoInfo, createPrivacyUrl and            *)
(* resolveRedirect (src/src/utils.ts); and of the reply composer of        *)
(* BskyBot (replyWithPrivacyLink, createUrlFacets, createEmbedIfNeeded).   *)
(*                                                                         *)
(* One action is one run of a coroutine from the arrival of a network      *)
(* response to its next await (JavaScript runs that stretch atomically).   *)
(***************************************************************************)
EXTENDS Naturals, Integers, Sequences, FiniteSets, Bags, TLC

VARIABLES
    isProcessing,       \* [Inst -> BOOLEAN]    BskyBot.isProcessing
    recentlyProcessed,  \* [Inst -> Seq(uri)]   BskyBot.recentlyProcessed (a JS Set: insertion order, no duplicates)
    co,                 \* [Inst -> [Slots -> coroutine]]  the checkTimeline calls of each bot instance
    posted,             \* bag of reply records the feed server holds (agent.post that succeeded)
    dispatched,         \* [Inst -> Seq(uri)]   history: uris that reached line 480 in this process, in order
    cycles,             \* number of cycles started so far
    skipLogged,         \* BOOLEAN: a checkTimeline call was skipped because a cycle was in flight (line 411)
    processedPosts,     \* set of uris         FirehoseBot.processedPosts
    handler,            \* [FhEvents -> handler]  the onCreate handler run of each firehose event
    fhPosted,           \* bag of reply records FirehoseBot posted
    lastReplyTime,      \* ms                  FirehoseBot.lastReplyTime
    now,                \* ms                  Date.now() of the FirehoseBot process
    exIn,               \* the argument of a call of a URLUtils function on its own
    exOut,              \* its result ("pending" before the call returned)
    reply               \* a call of BskyBot.replyWithPrivacyLink followed step by step

botVars == <<isProcessing, recentlyProcessed, co, posted, dispatched, cycles, skipLogged>>
fhVars == <<processedPosts, handler, fhPosted, lastReplyTime, now>>
exVars == <<exIn, exOut, reply>>
vars == <<botVars, fhVars, exVars>>

-----------------------------------------------------------------------------
(* Bounds of the model *)
MaxCycles == 2
MaxBatch == 3

(* Two bot instances (two processes or two overlapping serverless           *)
(* invocations), each with two frames in which a checkTimeline call can run *)
Inst == {1, 2}
Slots == {1, 2}

(* Program constants *)
CACHE_SIZE == 100
KEEP_SIZE == 50
MAX_AGE_HOURS == 24

-----------------------------------------------------------------------------
(* Generic helpers *)
Range(s) == {s[j] : j \in 1..Len(s)}

LastN(s, n) == IF Len(s) <= n THEN s ELSE SubSeq(s, Len(s) - n + 1, Len(s))

FirstN(s, n) == IF Len(s) <= n THEN s ELSE SubSeq(s, 1, n)

Count(x, s) == Cardinality({j \in 1..Len(s) : s[j] = x})

-----------------------------------------------------------------------------
(* Text and the tag test *)
LowerChar(c) ==
    CASE c = "V" -> "v"
      [] c = "P" -> "p"
      [] c = "X" -> "x"
      [] OTHER -> c

toLowerCase(t) == [j \in 1..Len(t) |-> LowerChar(t[j])]

includes(t, sub) ==
    \E off \in 0..Len(t) :
        /\ off + Len(sub) <= Len(t)
        /\ \A j \in 1..Len(sub) : t[off + j] = sub[j]

Hashtag == <<"#", "v", "p">>
Handle == "bot"
sessionDid == "did:bot"

(* the letter case of the text is kept *)
containsHashtagCaseSensitive(text) == includes(text, Hashtag)

(* lines 332-334 *)
containsHashtag(text) == includes(toLowerCase(text), toLowerCase(Hashtag))

-----------------------------------------------------------------------------
(* URLs and the recognizers.  A URL as it stands in a text is a run of     *)
(* non-blank characters: an optional scheme, an optional host prefix, the  *)
(* site (host and path up to the identifier), the token that follows the   *)
(* site, and the rest up to the next blank (query parameters, a trailing   *)
(* slash).                                                                  *)
Url(scheme, www, site, id, rest) ==
    [scheme |-> scheme, www |-> www, site |-> site, id |-> id, rest |-> rest]

NoUrl == Url("", "", "none", <<>>, "")
YtUrl == Url("https://", "www.", "youtube.com/watch?v=", <<"a", "b", "c", "d", "e", "f", "g", "h", "i", "j", "k">>, "")
VimeoUrl == Url("https://", "", "vimeo.com/", <<"1", "2", "3">>, "")
BlogUrl == Url("https://", "", "example.com/", <<"p", "1">>, "")
(* the link of src/test-url.js line 6, cut off inside its identifier *)
YtCutUrl == Url("", "www.", "youtube.com/watch?v=", <<"S", "m", "m", "L">>, "")

NoInfo == [platform |-> "none", id |-> <<>>, url |-> NoUrl]

Digits == {"0", "1", "2", "3", "4", "5", "6", "7", "8", "9"}

(* [a-zA-Z0-9], \w and [a-zA-Z0-9_-] *)
Alnum ==
    Digits \cup {"a", "b", "c", "d", "e", "f", "g", "h", "i", "j", "k", "l", "m",
                 "n", "o", "p", "q", "r", "s", "t", "u", "v", "w", "x", "y", "z",
                 "A", "B", "C", "D", "E", "F", "G", "H", "I", "J", "K", "L", "M",
                 "N", "O", "P", "Q", "R", "S", "T", "U", "V", "W", "X", "Y", "Z"}
WordChars == Alnum \cup {"_"}
YtIdChars == WordChars \cup {"-"}

(* the longest prefix of id made of characters of class: what a greedy      *)
(* capture group (class+) takes                                             *)
PrefixWhile(id, class) ==
    LET n == IF \A j \in 1..Len(id) : id[j] \in class THEN Len(id)
             ELSE (CHOOSE j \in 1..Len(id) :
                      id[j] \notin class /\ \A l \in 1..(j - 1) : id[l] \in class) - 1
    IN  SubSeq(id, 1, n)

(* what (\d+) captures *)
DigitPrefix(id) == PrefixWhile(id, Digits)

(* One regular expression of extractVideoInfo: the sites it matches, whether *)
(* it has the optional group (www.)?, the class and least length of its  *)
(* capture group, and whether it ends in \S*                            *)
Pattern(platform, sites, www, class, min, tail) ==
    [platform |-> platform, sites |-> sites, www |-> www, class |-> class, min |-> min, tail |-> tail]

(* lines 20-23, 44, 58-63, 81, 95, 111, in the order the code tries them.   *)
(* The two alternatives of the Twitch clip expression are the entries 10    *)
(* and 11: they match disjoint sites.  The path that tiktok.com/.*/video/   *)
(* lets through is the one of entry 8, @user.                               *)
Recognizers ==
    << Pattern("youtube", {"youtube.com/watch?v="}, TRUE, YtIdChars, 4, TRUE),
       Pattern("youtube", {"youtu.be/"}, TRUE, YtIdChars, 4, TRUE),
       Pattern("youtube", {"youtube.com/shorts/"}, TRUE, YtIdChars, 4, TRUE),
       Pattern("vimeo", {"vimeo.com/", "vimeo.com/video/"}, TRUE, Digits, 1, TRUE),
       Pattern("tiktok", {"tiktok.com/@user/video/"}, TRUE, Digits, 1, TRUE),
       Pattern("tiktok", {"vm.tiktok.com/"}, FALSE, Alnum, 1, TRUE),
       Pattern("tiktok", {"tiktok.com/t/"}, TRUE, Alnum, 1, TRUE),
       Pattern("tiktok", {"tiktok.com/@user/video/"}, TRUE, Digits, 1, TRUE),
       Pattern("twitch", {"twitch.tv/videos/"}, TRUE, Digits, 1, TRUE),
       Pattern("twitch", {"twitch.tv/user/clip/"}, TRUE, WordChars, 1, FALSE),
       Pattern("twitch", {"clips.twitch.tv/"}, FALSE, WordChars, 1, TRUE),
       Pattern("dailymotion", {"dailymotion.com/video/"}, TRUE, Alnum, 1, TRUE) >>

(* the expressions that belong to one text.match call: the code returns at  *)
(* the first call that matches                                              *)
MatchCalls == << {1}, {2}, {3}, {4}, {5}, {6}, {7}, {8}, {9}, {10, 11}, {12} >>

(* expression p matches somewhere in the URL u *)
Matches(u, p) == u.site \in p.sites /\ Len(PrefixWhile(u.id, p.class)) >= p.min

(* match[1] *)
MatchId(u, p) == PrefixWhile(u.id, p.class)

(* match[0] with 'https://' put in front when it does not start with 'http' *)
(* (lines 29-33 and the like): the match begins at the scheme when the host *)
(* prefix of u is one the expression allows, and at the site otherwise; it  *)
(* runs to the end of the capture group, or to the next blank when the      *)
(* expression ends in \S*                                               *)
MatchUrl(u, p) ==
    LET fromStart == u.www = "" \/ (u.www = "www." /\ p.www)
    IN  Url(IF fromStart /\ u.scheme # "" THEN u.scheme ELSE "https://",
            IF fromStart THEN u.www ELSE "",
            u.site,
            IF p.tail THEN u.id ELSE MatchId(u, p),
            IF p.tail THEN u.rest ELSE "")

(* the leftmost URL of the text that any expression matches decides *)
extractVideoInfoInLeftmost(text) ==
    LET hits == {j \in 1..Len(text) : \E q \in 1..Len(Recognizers) : Matches(text[j], Recognizers[q])}
    IN  IF hits = {} THEN NoInfo
        ELSE LET j == CHOOSE x \in hits : \A y \in hits : x <= y
                 q == CHOOSE x \in 1..Len(Recognizers) :
                          /\ Matches(text[j], Recognizers[x])
                          /\ \A y \in 1..(x - 1) : ~Matches(text[j], Recognizers[y])
             IN  [platform |-> Recognizers[q].platform,
                  id |-> MatchId(text[j], Recognizers[q]),
                  url |-> MatchUrl(text[j], Recognizers[q])]

(* lines 18-125 on a text of lines, one URL on each (no expression matches  *)
(* across a line end): the first text.match call that matches anywhere      *)
(* decides, and within it the leftmost match                                *)
extractVideoInfoIn(text) ==
    LET hits(c) == {j \in 1..Len(text) : \E q \in MatchCalls[c] : Matches(text[j], Recognizers[q])}
        calls == {c \in 1..Len(MatchCalls) : hits(c) # {}}
    IN  IF calls = {} THEN NoInfo
        ELSE LET c == CHOOSE x \in calls : \A y \in calls : x <= y
                 j == CHOOSE x \in hits(c) : \A y \in hits(c) : x <= y
                 q == CHOOSE x \in MatchCalls[c] : Matches(text[j], Recognizers[x])
             IN  [platform |-> Recognizers[q].platform,
                  id |-> MatchId(text[j], Recognizers[q]),
                  url |-> MatchUrl(text[j], Recognizers[q])]

(* the call on a text that holds the one URL u *)
extractVideoInfo(u) == extractVideoInfoIn(<<u>>)

-----------------------------------------------------------------------------
(* The feed: a fixed universe of messages.  uri 0 stands for "no message". *)
NoMsg == 0
Msgs == 1..11

MkPost(hasRecord, hasText, textIsString, text, ageHours, parent, root, embed, facetUrl, textUrl) ==
    [hasRecord |-> hasRecord, hasText |-> hasText, textIsString |-> textIsString,
     text |-> text, ageHours |-> ageHours, parent |-> parent, root |-> root,
     embed |-> embed, facetUrl |-> facetUrl, textUrl |-> textUrl, author |-> "user"]

(* embed = record.embed.external.uri, facetUrl = the uri of a link facet of  *)
(* the record, textUrl = the link written in record.text (the tag test runs *)
(* on text, which holds the rest of the body).  Message 10 is a post of    *)
(* the bot's own account, message 11 a record without a text field.        *)
Post(m) ==
    CASE m = 1 -> MkPost(TRUE, TRUE, TRUE, <<"#", "V", "P", " ">>, 1, NoMsg, NoMsg, YtUrl, VimeoUrl, VimeoUrl)
      [] m = 2 -> MkPost(TRUE, TRUE, TRUE, <<"x", "#", "v", "p">>, 2, 3, 3, YtUrl, NoUrl, NoUrl)
      [] m = 3 -> MkPost(TRUE, TRUE, TRUE, <<"#", "v", "p">>, 3, NoMsg, NoMsg, VimeoUrl, NoUrl, NoUrl)
      [] m = 4 -> MkPost(TRUE, TRUE, TRUE, <<"#", "v", "p", "x">>, 1, NoMsg, NoMsg, NoUrl, VimeoUrl, YtCutUrl)
      [] m = 5 -> MkPost(TRUE, TRUE, TRUE, <<"#", "v", "p">>, 30, NoMsg, NoMsg, YtUrl, NoUrl, NoUrl)
      [] m = 6 -> MkPost(TRUE, TRUE, FALSE, <<>>, 1, NoMsg, NoMsg, YtUrl, NoUrl, NoUrl)
      [] m = 7 -> MkPost(TRUE, TRUE, TRUE, <<"#", "x">>, 1, NoMsg, NoMsg, YtUrl, NoUrl, NoUrl)
      [] m = 8 -> MkPost(TRUE, TRUE, TRUE, <<"#", "v", "p">>, 1, 2, 3, NoUrl, NoUrl, NoUrl)
      [] m = 9 -> MkPost(TRUE, TRUE, TRUE, <<"#", "v", "p">>, 1, 4, 4, YtUrl, NoUrl, YtUrl)
      [] m = 10 -> [MkPost(TRUE, TRUE, TRUE, <<"#", "v", "p">>, 1, 7, 7, YtUrl, NoUrl, NoUrl)
                       EXCEPT !.author = sessionDid]
      [] m = 11 -> MkPost(TRUE, FALSE, TRUE, <<>>, 1, NoMsg, NoMsg, YtUrl, NoUrl, NoUrl)
      [] OTHER -> MkPost(TRUE, TRUE, TRUE, <<"#", "v", "p">>, 1, NoMsg, NoMsg, BlogUrl, NoUrl, NoUrl)

isReply(m) == Post(m).parent # NoMsg \/ Post(m).root # NoMsg

(* What searchPosts and getTimeline may answer *)
SearchBatches == {<<5, 1, 4>>, <<1, 2>>, <<8, 3>>, <<1, 6, 4>>, <<11, 4, 1>>}
TimelineBatches == {<<7, 5, 1>>, <<9, 6>>}

-----------------------------------------------------------------------------
(* The duplicate guard *)

(* the fast path left out *)
FastPathHitNever(cache, uri) == FALSE

(* line 471: this.recentlyProcessed.has(post.uri) *)
FastPathHit(cache, uri) == uri \in Range(cache)

(* The direct replies a depth-1 thread fetch of uri returns: feed messages  *)
(* whose parent is uri, and the replies the bot posted with parent uri.     *)
DirectReplyAuthors(uri) ==
    {Post(m).author : m \in {x \in Msgs : Post(x).parent = uri}}
        \cup {r.author : r \in {x \in BagToSet(posted) : x.parent = uri}}

(* the scan of the replies left out *)
hasAlreadyRepliedNever(uri, fetchOk) == FALSE

(* a failed fetch counts as "already replied" *)
hasAlreadyRepliedFailClosed(uri, fetchOk) ==
    IF fetchOk THEN Handle \in DirectReplyAuthors(uri) ELSE TRUE

(* lines 336-358: fetchOk = FALSE is the catch branch *)
hasAlreadyReplied(uri, fetchOk) ==
    IF fetchOk THEN Handle \in DirectReplyAuthors(uri) ELSE FALSE

(* the trim left out *)
addToProcessedCacheNoTrim(cache, uri) ==
    IF uri \in Range(cache) THEN cache ELSE Append(cache, uri)

(* slice(0, 50) in place of slice(-50): the oldest entries are kept *)
addToProcessedCacheKeepOldest(cache, uri) ==
    LET added == IF uri \in Range(cache) THEN cache ELSE Append(cache, uri)
    IN  IF Len(added) > CACHE_SIZE THEN FirstN(added, KEEP_SIZE) ELSE added

(* lines 497-505: Set.add, then the trim to the last 50 entries *)
addToProcessedCache(cache, uri) ==
    LET added == IF uri \in Range(cache) THEN cache ELSE Append(cache, uri)
    IN  IF Len(added) > CACHE_SIZE THEN LastN(added, KEEP_SIZE) ELSE added

(* the insertion moved in front of the authoritative check *)
CacheAfterGuardAlways(cache, uri, alreadyReplied) == addToProcessedCache(cache, uri)

(* the insertion left out *)
CacheAfterGuardNever(cache, uri, alreadyReplied) == cache

(* lines 476-482: the cache after the authoritative check answered *)
CacheAfterGuard(cache, uri, alreadyReplied) ==
    IF alreadyReplied THEN cache ELSE addToProcessedCache(cache, uri)

(* lines 461-475, the part of processPostIfNeeded before its first await:   *)
(* "false" = return false, "throw" = TypeError out of containsHashtag,      *)
(* "await" = hasAlreadyReplied was called                                   *)
SyncPrefix(cache, m) ==
    IF ~Post(m).hasRecord \/ ~Post(m).hasText THEN "false"
    ELSE IF ~Post(m).textIsString THEN "throw"
    ELSE IF ~containsHashtag(Post(m).text) THEN "false"
    ELSE IF FastPathHit(cache, m) THEN "false"
    ELSE "await"

-----------------------------------------------------------------------------
(* Extraction and the reply *)

(* the body text is searched first, the link record second *)
postVideoInfoTextFirst(m) ==
    IF extractVideoInfo(Post(m).textUrl).platform # "none" THEN extractVideoInfo(Post(m).textUrl)
    ELSE IF Post(m).embed = NoUrl THEN NoInfo ELSE extractVideoInfo(Post(m).embed)

(* the link facets are searched when there is no link record *)
postVideoInfoFacets(m) ==
    IF Post(m).embed # NoUrl THEN extractVideoInfo(Post(m).embed)
    ELSE extractVideoInfo(Post(m).facetUrl)

(* the body text is searched when there is no link record *)
postVideoInfoTextFallback(m) ==
    IF Post(m).embed # NoUrl THEN extractVideoInfo(Post(m).embed)
    ELSE extractVideoInfo(Post(m).textUrl)

(* lines 528-535: the reference processPost hands to the reply step: only   *)
(* post.embed.external.uri is read                                          *)
postVideoInfo(m) ==
    IF Post(m).embed = NoUrl THEN NoInfo ELSE extractVideoInfo(Post(m).embed)

(* a reply is composed whether a recognizer matched or not *)
processPostAlways(m) == "post"

(* lines 523-542: processPost up to its await; "post" = replyWithPrivacyLink called *)
processPost(m) ==
    IF postVideoInfo(m).platform # "none" THEN "post" ELSE "done"

(* line 549: replyInfo.parent.uri || replyInfo.root.uri *)
parentUri(m) == IF Post(m).parent # NoMsg THEN Post(m).parent ELSE Post(m).root

(* the comment's own link record is read in place of the parent's *)
commentVideoInfoOwn(m) ==
    IF Post(m).embed = NoUrl THEN NoInfo ELSE extractVideoInfo(Post(m).embed)

(* lines 563-574: the reference processComment hands to the reply step:     *)
(* only parentPost.embed.external.uri is read                               *)
commentVideoInfo(m) ==
    LET p == parentUri(m)
    IN  IF Post(p).embed = NoUrl THEN NoInfo ELSE extractVideoInfo(Post(p).embed)

(* lines 558-580: processComment after the parent fetch answered *)
processCommentParent(m) ==
    IF commentVideoInfo(m).platform # "none" THEN "post" ELSE "done"

(* the videoInfo argument of replyWithPrivacyLink for trigger m *)
videoInfoFor(m) == IF isReply(m) THEN commentVideoInfo(m) ELSE postVideoInfo(m)

(* lines 484-490: which branch the dispatch takes *)
Dispatch(m) == IF isReply(m) THEN "parent" ELSE processPost(m)

(* the reply to a comment is attached to the root of the comment's thread *)
createReplyStructureToRoot(m) ==
    IF isReply(m)
    THEN [root |-> Post(m).root, parent |-> Post(m).root]
    ELSE [root |-> m, parent |-> m]

(* the reply is attached to the trigger's parent *)
createReplyStructureToParent(m) ==
    IF isReply(m)
    THEN [root |-> Post(m).root, parent |-> parentUri(m)]
    ELSE [root |-> m, parent |-> m]

(* lines 638-663 *)
createReplyStructure(m) ==
    IF isReply(m)
    THEN [root |-> Post(m).root, parent |-> m]
    ELSE [root |-> m, parent |-> m]

(* the record agent.post stores: author is the bot's handle; by = the       *)
(* instance that posted, trigger = the post replyWithPrivacyLink was called *)
(* for, video = the reference its link was built from                       *)
ReplyRecord(i, m) ==
    [author |-> Handle, by |-> i, trigger |-> m, video |-> videoInfoFor(m),
     root |-> createReplyStructure(m).root, parent |-> createReplyStructure(m).parent]

RepliesTo(m) == {r \in BagToSet(posted) : r.parent = m}

NumReplies(m) ==
    LET rs == RepliesTo(m)
        RECURSIVE Sum(_)
        Sum(S) == IF S = {} THEN 0
                  ELSE LET x == CHOOSE y \in S : TRUE IN CopiesIn(x, posted) + Sum(S \ {x})
    IN  Sum(rs)

NumRepliesBy(i, m) == CopiesIn(ReplyRecord(i, m), posted)

-----------------------------------------------------------------------------
(* The scan loop *)

(* lines 451-458: "throw" when a post has no record *)
filterThrows(posts) == \E j \in 1..Len(posts) : ~Post(posts[j]).hasRecord

IsRecent(m) == Post(m).ageHours >= 0 /\ Post(m).ageHours < MAX_AGE_HOURS

filterRecentPosts(posts) == SelectSeq(posts, IsRecent)

(* the await left out: every candidate is started at once *)
AwaitSettledNoAwait(st, k) == TRUE

(* lines 432-436 and 515-517: "for ... await": candidate k is started only  *)
(* when the calls for all candidates before it have settled                 *)
AwaitSettled(st, k) == \A j \in 1..(k - 1) : st[j] = "done"

(* Runs the loop body synchronously from candidate k until a call awaits,   *)
(* the batch is exhausted or a call throws.                                 *)
RECURSIVE RunLoop(_, _, _, _)
RunLoop(cache, batch, st, k) ==
    IF k > Len(batch)
    THEN [st |-> st,
          out |-> IF \A j \in 1..Len(st) : st[j] = "done" THEN "finished" ELSE "suspended"]
    ELSE IF st[k] # "todo" THEN RunLoop(cache, batch, st, k + 1)
    ELSE IF ~AwaitSettled(st, k) THEN [st |-> st, out |-> "suspended"]
    ELSE LET r == SyncPrefix(cache, batch[k])
         IN  IF r = "throw" THEN [st |-> st, out |-> "threw"]
             ELSE IF r = "false"
             THEN RunLoop(cache, batch, [st EXCEPT ![k] = "done"], k + 1)
             ELSE RunLoop(cache, batch, [st EXCEPT ![k] = "thread"], k + 1)

Idle == [phase |-> "idle", batch |-> <<>>, st |-> <<>>]

(* an error in the fallback loop starts the fallback again *)
SettleRetry(phase, cache, batch, st) ==
    LET r == RunLoop(cache, batch, st, 1)
    IN  IF r.out = "suspended" THEN [phase |-> phase, batch |-> batch, st |-> r.st]
        ELSE IF r.out = "threw" THEN [phase |-> "delay", batch |-> <<>>, st |-> <<>>]
        ELSE [phase |-> "idle", batch |-> <<>>, st |-> <<>>]

(* The coroutine after its loop ran on from st: still in the loop, in the   *)
(* catch of checkTimeline (lines 440-445), or through the finally.          *)
Settle(phase, cache, batch, st) ==
    LET r == RunLoop(cache, batch, st, 1)
    IN  IF r.out = "suspended" THEN [phase |-> phase, batch |-> batch, st |-> r.st]
        ELSE IF r.out = "threw" /\ phase = "loop" THEN [phase |-> "delay", batch |-> <<>>, st |-> <<>>]
        ELSE Idle

(* the flag is not cleared when the cycle ends *)
FlagAfterKept(i, c) == isProcessing[i]

(* line 447, the finally of checkTimeline *)
FlagAfter(i, c) == IF c.phase = "idle" THEN FALSE ELSE isProcessing[i]

SetCo(i, s, c) ==
    /\ co' = [co EXCEPT ![i][s] = c]
    /\ isProcessing' = [isProcessing EXCEPT ![i] = FlagAfter(i, c)]

(* the test of the flag left out *)
BusyNever(i) == FALSE

(* line 410: the test of the in-flight flag *)
Busy(i) == isProcessing[i]

-----------------------------------------------------------------------------
(* FirehoseBot (src/unnamed/part_003, lines 330-722): one run of the        *)
(* onCreate handler per post-creation event of the stream.  The record of   *)
(* an event is the record of the feed message with the event's uri.         *)

minDelayBetweenReplies == 10000
YT_ID_LEN == 11

(* the clock of the model advances in steps of half the minimum delay *)
MaxTicks == 3
TickMs == minDelayBetweenReplies \div 2

(* the uris of the events in the order the stream delivers them; event 3    *)
(* repeats the uri of event 1, event 4 is a post of the bot's own account   *)
FhStream == <<2, 1, 2, 10>>
FhEvents == 1..Len(FhStream)

(* lines 414-418: the words "adblock" and "videoprivacy" (here "ad", "vp") *)
fhHasTag(text) ==
    \/ includes(toLowerCase(text), <<"a", "d">>)
    \/ includes(toLowerCase(text), <<"v", "p">>)

(* the test of processedPosts left out *)
fhSkipsNoDedup(m) ==
    \/ ~Post(m).hasRecord
    \/ ~Post(m).hasText
    \/ ~Post(m).textIsString
    \/ Post(m).text = <<>>
    \/ Post(m).author = sessionDid
    \/ ~fhHasTag(Post(m).text)

(* the test of the author left out *)
fhSkipsOwnPostsToo(m) ==
    \/ ~Post(m).hasRecord
    \/ ~Post(m).hasText
    \/ ~Post(m).textIsString
    \/ Post(m).text = <<>>
    \/ m \in processedPosts
    \/ ~fhHasTag(Post(m).text)

(* lines 394-418: the handler returns (or throws into its catch) before it  *)
(* records the uri                                                          *)
fhSkips(m) ==
    \/ ~Post(m).hasRecord
    \/ ~Post(m).hasText
    \/ ~Post(m).textIsString
    \/ Post(m).text = <<>>
    \/ Post(m).author = sessionDid
    \/ m \in processedPosts
    \/ ~fhHasTag(Post(m).text)

(* lines 531-533 *)
isYouTubeUrl(u) ==
    u.site \in {"youtube.com/watch?v=", "youtu.be/", "youtube.com/shorts/",
                "youtube.com/embed/", "youtube.com/v/"}

(* lines 535-547: exactly eleven identifier characters; <<>> stands for null *)
extractVideoId(u) ==
    IF u.site \in {"youtube.com/watch?v=", "youtu.be/", "youtube.com/embed/", "youtube.com/v/"}
       /\ Len(u.id) >= YT_ID_LEN
    THEN SubSeq(u.id, 1, YT_ID_LEN)
    ELSE <<>>

(* lines 471-483 *)
fhDirectReplyAuthors(uri) ==
    {Post(m).author : m \in {x \in Msgs : Post(x).parent = uri}}
        \cup {r.author : r \in {x \in BagToSet(fhPosted) : x.parent = uri}}

fhHasAlreadyReplied(uri, fetchOk) ==
    IF fetchOk THEN sessionDid \in fhDirectReplyAuthors(uri) ELSE FALSE

(* pc: "new" (not delivered), "replied" (awaits hasAlreadyReplied),         *)
(* "parent" (awaits the parent's thread), "wait" (awaits the rate limit     *)
(* timer), "thread" (awaits the thread of the trigger), "prepare" (awaits   *)
(* metadata, facets and thumbnail), "post" (awaits agent.post), "done";     *)
(* src = the message whose record processPost reads (videoSourcePost);      *)
(* parent = how the fetch of the parent ended; wake = when the timer fires; *)
(* sentAt = Date.now() when agent.post succeeded, -1 before                 *)
FhNew == [pc |-> "new", src |-> NoMsg, parent |-> "none", wake |-> 0, sentAt |-> -1]

FhDone(h) == [h EXCEPT !.pc = "done"]

(* lines 426-440: videoSourcePost after the fetch of the parent settled;    *)
(* when it raised, the trigger's own record stays the source                *)
fhSourceAfterParent(m, fetchOk) == IF fetchOk THEN Post(m).parent ELSE m

(* lines 485-525: processPost(postUri, source) up to its first await *)
fhProcessPost(h, src) ==
    LET u == Post(src).embed
        h1 == [h EXCEPT !.src = src]
    IN  IF u = NoUrl \/ ~isYouTubeUrl(u) \/ extractVideoId(u) = <<>>
        THEN FhDone(h1)
        ELSE IF now - lastReplyTime < minDelayBetweenReplies
        THEN [h1 EXCEPT !.pc = "wait",
                        !.wake = now + (minDelayBetweenReplies - (now - lastReplyTime))]
        ELSE [h1 EXCEPT !.pc = "thread"]

(* lines 567-568, 598-606: the reply FirehoseBot posts for event e *)
FhReplyRecord(e) ==
    LET m == FhStream[e]
    IN  [author |-> sessionDid, event |-> e, parent |-> m,
         root |-> IF Post(m).root # NoMsg THEN Post(m).root ELSE m,
         videoId |-> extractVideoId(Post(handler[e].src).embed)]

SetHandler(e, h) == handler' = [handler EXCEPT ![e] = h]

(* lines 389-429: an event is delivered; the handler runs to its first await *)
FhOnCreate(e) ==
    /\ handler[e].pc = "new"
    /\ \A d \in FhEvents : d < e => handler[d].pc # "new"
    /\ IF fhSkips(FhStream[e])
       THEN /\ SetHandler(e, FhDone(handler[e]))
            /\ UNCHANGED processedPosts
       ELSE /\ SetHandler(e, [handler[e] EXCEPT !.pc = "replied"])
            /\ processedPosts' = processedPosts \cup {FhStream[e]}
    /\ UNCHANGED <<fhPosted, lastReplyTime, now, botVars, exVars>>

(* lines 429-443, 452: hasAlreadyReplied settled *)
FhRepliedResp(e, fetchOk) ==
    /\ LET m == FhStream[e]
       IN  IF fhHasAlreadyReplied(m, fetchOk) THEN SetHandler(e, FhDone(handler[e]))
           ELSE IF Post(m).parent # NoMsg THEN SetHandler(e, [handler[e] EXCEPT !.pc = "parent"])
           ELSE SetHandler(e, fhProcessPost(handler[e], m))
    /\ UNCHANGED <<processedPosts, fhPosted, lastReplyTime, now, botVars, exVars>>

FhRepliedOk(e) ==
    /\ handler[e].pc = "replied"
    /\ FhRepliedResp(e, TRUE)

FhRepliedFail(e) ==
    /\ handler[e].pc = "replied"
    /\ FhRepliedResp(e, FALSE)

(* lines 440-452: the fetch of the parent's thread settled *)
FhParentResp(e, fetchOk) ==
    /\ SetHandler(e, fhProcessPost([handler[e] EXCEPT !.parent = IF fetchOk THEN "ok" ELSE "failed"],
                                   fhSourceAfterParent(FhStream[e], fetchOk)))
    /\ UNCHANGED <<processedPosts, fhPosted, lastReplyTime, now, botVars, exVars>>

FhParentOk(e) ==
    /\ handler[e].pc = "parent"
    /\ FhParentResp(e, TRUE)

FhParentFail(e) ==
    /\ handler[e].pc = "parent"
    /\ FhParentResp(e, FALSE)

(* lines 518-525, 555: the rate limit timer fired *)
FhWaitDone(e) ==
    /\ handler[e].pc = "wait"
    /\ now >= handler[e].wake
    /\ SetHandler(e, [handler[e] EXCEPT !.pc = "thread"])
    /\ UNCHANGED <<processedPosts, fhPosted, lastReplyTime, now, botVars, exVars>>

(* lines 555-574: the thread of the trigger answered *)
FhThreadOk(e) ==
    /\ handler[e].pc = "thread"
    /\ SetHandler(e, [handler[e] EXCEPT !.pc = "prepare"])
    /\ UNCHANGED <<processedPosts, fhPosted, lastReplyTime, now, botVars, exVars>>

(* lines 610-612, 528: an await of replyWithPrivacyLink raised: caught, and *)
(* processPost records the time                                             *)
FhGiveUp(e) ==
    /\ SetHandler(e, FhDone(handler[e]))
    /\ lastReplyTime' = now
    /\ UNCHANGED <<processedPosts, fhPosted, now, botVars, exVars>>

FhThreadFail(e) ==
    /\ handler[e].pc = "thread"
    /\ FhGiveUp(e)

(* lines 574-598: metadata, facets and thumbnail are there (the fetches of  *)
(* metadata and thumbnail catch their own errors)                           *)
FhPrepareOk(e) ==
    /\ handler[e].pc = "prepare"
    /\ SetHandler(e, [handler[e] EXCEPT !.pc = "post"])
    /\ UNCHANGED <<processedPosts, fhPosted, lastReplyTime, now, botVars, exVars>>

(* line 581: detectFacets raised *)
FhPrepareFail(e) ==
    /\ handler[e].pc = "prepare"
    /\ FhGiveUp(e)

(* lines 598-608, 528: agent.post succeeded *)
FhPostOk(e) ==
    /\ handler[e].pc = "post"
    /\ fhPosted' = fhPosted (+) SetToBag({FhReplyRecord(e)})
    /\ SetHandler(e, [FhDone(handler[e]) EXCEPT !.sentAt = now])
    /\ lastReplyTime' = now
    /\ UNCHANGED <<processedPosts, now, botVars, exVars>>

FhPostFail(e) ==
    /\ handler[e].pc = "post"
    /\ FhGiveUp(e)

(* time passes *)
FhTick ==
    /\ now < minDelayBetweenReplies + MaxTicks * TickMs
    /\ now' = now + TickMs
    /\ UNCHANGED <<processedPosts, handler, fhPosted, lastReplyTime, botVars, exVars>>

-----------------------------------------------------------------------------
(* Calls of URLUtils.extractVideoInfo on its own *)

MaxIdLen == 12

(* the sites of the expressions of extractVideoInfo, and one of no platform *)
ExtractSites ==
    UNION {Recognizers[q].sites : q \in 1..Len(Recognizers)} \cup {"example.com/"}

IdKinds == {"letters", "digits", "mixed"}

(* an identifier token of n characters *)
IdOf(kind, n) ==
    [j \in 1..n |->
        CASE kind = "digits" -> "7"
          [] kind = "letters" -> (IF j % 2 = 1 THEN "a" ELSE "_")
          [] OTHER -> (IF j <= 2 THEN "4" ELSE "b")]

(* texts of one line: every shape of URL.  What follows the identifier is  *)
(* nothing, a tracking parameter or a slash.                                *)
OneLineTexts ==
    {<<Url(scheme, www, site, IdOf(kind, n), rest)>> :
        scheme \in {"", "http://", "https://"}, www \in {"", "www."}, site \in ExtractSites,
        kind \in IdKinds, n \in 0..MaxIdLen, rest \in {"", "?si=x", "/"}}

(* texts of two lines: one plain URL of a site on each *)
SampleUrl(site) == Url("https://", "", site, IdOf("digits", YT_ID_LEN), "")

TwoLineTexts == {<<SampleUrl(s1), SampleUrl(s2)>> : s1 \in ExtractSites, s2 \in ExtractSites}

ExtractInputs == OneLineTexts \cup TwoLineTexts

Pending == [platform |-> "pending", id |-> <<>>, url |-> NoUrl]

(* lines 18-125: the call returns *)
ExtractCall ==
    /\ exOut = Pending
    /\ exOut' = extractVideoInfoIn(exIn)
    /\ UNCHANGED <<exIn, reply, botVars, fhVars>>

-----------------------------------------------------------------------------
(* The reply composer: BskyBot.replyWithPrivacyLink (bot.ts 586-615) with   *)
(* URLUtils.createPrivacyUrl and resolveRedirect (utils.ts 145-206) and     *)
(* createEmbedIfNeeded (bot.ts 665-700), one action for each network answer *)

privacyDomain == "your-domain.org"

(* encodeURIComponent on one piece of a URL: every character but letters,   *)
(* digits and - _ . ! ~ * ' ( ) is escaped                                  *)
EncodedPiece(piece) ==
    CASE piece = "https://" -> "https%3A%2F%2F"
      [] piece = "http://" -> "http%3A%2F%2F"
      [] piece = "/" -> "%2F"
      [] piece = "?si=x" -> "%3Fsi%3Dx"
      [] piece = "?lang=en" -> "%3Flang%3Den"
      [] piece = "youtube.com/watch?v=" -> "youtube.com%2Fwatch%3Fv%3D"
      [] piece = "youtu.be/" -> "youtu.be%2F"
      [] piece = "youtube.com/shorts/" -> "youtube.com%2Fshorts%2F"
      [] piece = "vimeo.com/" -> "vimeo.com%2F"
      [] piece = "vimeo.com/video/" -> "vimeo.com%2Fvideo%2F"
      [] piece = "tiktok.com/@user/video/" -> "tiktok.com%2F%40user%2Fvideo%2F"
      [] piece = "vm.tiktok.com/" -> "vm.tiktok.com%2F"
      [] piece = "tiktok.com/t/" -> "tiktok.com%2Ft%2F"
      [] piece = "twitch.tv/videos/" -> "twitch.tv%2Fvideos%2F"
      [] piece = "twitch.tv/user/clip/" -> "twitch.tv%2Fuser%2Fclip%2F"
      [] piece = "clips.twitch.tv/" -> "clips.twitch.tv%2F"
      [] piece = "dailymotion.com/video/" -> "dailymotion.com%2Fvideo%2F"
      [] piece = "example.com/" -> "example.com%2F"
      [] OTHER -> piece

(* encodeURIComponent(url): the URL written out, piece by piece *)
encodeURIComponent(u) ==
    LET written == <<u.scheme, u.www, u.site>> \o u.id \o <<u.rest>>
    IN  [j \in 1..Len(written) |-> EncodedPiece(written[j])]

(* url.includes(part) for the two parts line 156 asks for *)
UrlIncludes(u, part) ==
    CASE part = "/t/" -> u.site = "tiktok.com/t/" \/ (u.id = <<"t">> /\ u.rest = "/")
      [] part = "vm.tiktok.com" -> u.site = "vm.tiktok.com/"
      [] OTHER -> FALSE

(* every TikTok reference is resolved *)
needsRedirectAnyTikTok(ref) == ref.platform = "tiktok"

(* line 156 *)
needsRedirect(ref) ==
    ref.platform = "tiktok" /\ (UrlIncludes(ref.url, "/t/") \/ UrlIncludes(ref.url, "vm.tiktok.com"))

(* lines 193-206: one HEAD request; response.url, or null (NoUrl) from the  *)
(* catch branch                                                             *)
resolveRedirect(url, fetchOk, target) == IF fetchOk THEN target ELSE NoUrl

(* a resolution that gave nothing leaves no reference *)
resolvedReferenceOrNone(ref, resolved) ==
    IF resolved # NoUrl THEN extractVideoInfo(resolved) ELSE NoInfo

(* lines 164-170: the reference after the resolution answered *)
resolvedReference(ref, resolved) ==
    IF resolved # NoUrl /\ extractVideoInfo(resolved) # NoInfo
    THEN extractVideoInfo(resolved)
    ELSE ref

(* the full URL is encoded for YouTube as well *)
privacyLinkEncodeAll(ref, url) ==
    <<"https://", privacyDomain, "/video?video=">> \o encodeURIComponent(IF ref # NoInfo THEN ref.url ELSE url)

(* lines 177-187: the privacy link of reference ref; url is the string the  *)
(* builder was called with, used when nothing was extracted from it         *)
privacyLink(ref, url) ==
    <<"https://", privacyDomain, "/video?video=">> \o
        (IF ref # NoInfo
         THEN (IF ref.platform = "youtube" THEN ref.id ELSE encodeURIComponent(ref.url))
         ELSE encodeURIComponent(url))

NoEmbed == [uri |-> <<>>, title |-> "", description |-> "", thumb |-> FALSE]

(* a preview record for every platform *)
createEmbedIfNeededAnyPlatform(info, link) ==
    [uri |-> link, title |-> "WATCH: With Video Privacy",
     description |-> "Use Hashtag #VideoPrivacy to watch without tracking, data collection or ads",
     thumb |-> FALSE]

(* bot.ts lines 666-678: the preview record before the thumbnail is fetched *)
createEmbedIfNeeded(info, link) ==
    IF info.platform # "youtube" THEN NoEmbed
    ELSE [uri |-> link, title |-> "WATCH: With Video Privacy",
          description |-> "Use Hashtag #VideoPrivacy to watch without tracking, data collection or ads",
          thumb |-> FALSE]

ReplyIdle ==
    [pc |-> "idle", info |-> NoInfo, ref |-> NoInfo, resolved |-> NoUrl,
     link |-> <<>>, fetches |-> 0, embed |-> NoEmbed]

(* the references replyWithPrivacyLink is called with: what extractVideoInfo *)
(* returns for the URL of a link record                                     *)
ReplyInputs ==
    {extractVideoInfo(Url(scheme, www, site, IdOf("digits", YT_ID_LEN), rest)) :
        scheme \in {"", "https://"}, www \in {"", "www."},
        site \in ExtractSites, rest \in {"", "?si=x"}} \ {NoInfo}

(* response.url of the HEAD request: the video page the short link leads   *)
(* to, the short link itself (no redirect), or a page that is no video      *)
RedirectTargets(url) ==
    {Url("https://", "www.", "tiktok.com/@user/video/", IdOf("digits", YT_ID_LEN), "?lang=en"), url, BlogUrl}

(* bot.ts lines 591-611 once the privacy link is known: the preview record  *)
(* is made and, for YouTube, the thumbnail is requested; otherwise          *)
(* agent.post is called                                                     *)
WithLink(r, ref, link) ==
    [r EXCEPT !.ref = ref,
              !.link = link,
              !.embed = createEmbedIfNeeded(r.info, link),
              !.pc = IF createEmbedIfNeeded(r.info, link) # NoEmbed THEN "thumb" ELSE "post"]

(* bot.ts 589 and utils.ts 145-175: createPrivacyUrl is called with the     *)
(* string videoInfo.url, extracts the reference from it again, and either   *)
(* sends the HEAD request of resolveRedirect or builds the link             *)
ReplyStart ==
    /\ reply.pc = "start"
    /\ LET ref == extractVideoInfo(reply.info.url)
       IN  reply' = IF ref # NoInfo /\ needsRedirect(ref)
                    THEN [reply EXCEPT !.pc = "redirect", !.ref = ref, !.fetches = @ + 1]
                    ELSE WithLink(reply, ref, privacyLink(ref, reply.info.url))
    /\ UNCHANGED <<exIn, exOut, botVars, fhVars>>

(* utils.ts 160-187: the HEAD request answered (fetchOk) or failed *)
RedirectResp(fetchOk, target) ==
    /\ reply.pc = "redirect"
    /\ LET resolved == resolveRedirect(reply.info.url, fetchOk, target)
           ref == resolvedReference(reply.ref, resolved)
       IN  reply' = WithLink([reply EXCEPT !.resolved = resolved], ref, privacyLink(ref, reply.info.url))
    /\ UNCHANGED <<exIn, exOut, botVars, fhVars>>

(* bot.ts 681-696: the thumbnail request answered with response.ok, with    *)
(* another status, or threw                                                 *)
ThumbResp(outcome) ==
    /\ reply.pc = "thumb"
    /\ reply' = [reply EXCEPT !.pc = IF outcome = "ok" THEN "upload" ELSE "post"]
    /\ UNCHANGED <<exIn, exOut, botVars, fhVars>>

(* bot.ts 685-692: agent.uploadBlob answered or threw *)
UploadResp(uploadOk) ==
    /\ reply.pc = "upload"
    /\ reply' = [reply EXCEPT !.pc = "post", !.embed.thumb = uploadOk]
    /\ UNCHANGED <<exIn, exOut, botVars, fhVars>>

(* bot.ts 611-614: agent.post answered or threw (caught and logged) *)
ReplyPostResp(postOk) ==
    /\ reply.pc = "post"
    /\ reply' = [reply EXCEPT !.pc = IF postOk THEN "sent" ELSE "failed"]
    /\ UNCHANGED <<exIn, exOut, botVars, fhVars>>

-----------------------------------------------------------------------------
(* Calls of BskyBot.createUrlFacets (bot.ts 617-636) on its own.  A text is *)
(* a sequence of characters; a character has a length in UTF-16 code units  *)
(* (what indexOf and substring count) and in UTF-8 bytes (what              *)
(* Buffer.byteLength counts).                                               *)
MaxPrefix == 3

(* one character of each width: ASCII, U+00E9, U+20AC, U+1F600 *)
CharWidth(c, encoding) ==
    CASE c = "e-acute" -> (IF encoding = "utf8" THEN 2 ELSE 1)
      [] c = "euro" -> (IF encoding = "utf8" THEN 3 ELSE 1)
      [] c = "emoji" -> (IF encoding = "utf8" THEN 4 ELSE 2)
      [] OTHER -> 1

RECURSIVE StringLength(_, _)
(* s.length for "utf16", Buffer.byteLength(s, 'utf8') for "utf8" *)
StringLength(s, encoding) ==
    IF s = <<>> THEN 0
    ELSE CharWidth(Head(s), encoding) + StringLength(Tail(s), encoding)

(* text.indexOf(url), in code units; -1 when url is not in text *)
indexOf(text, url) ==
    LET at == {k \in 0..(Len(text) - Len(url)) : SubSeq(text, k + 1, k + Len(url)) = url}
    IN  IF at = {} THEN -1
        ELSE StringLength(SubSeq(text, 1, CHOOSE k \in at : \A l \in at : k <= l), "utf16")

(* text.substring(0, end) for an end that falls between two characters *)
substring(text, end) ==
    IF end <= 0 THEN <<>>
    ELSE SubSeq(text, 1, CHOOSE k \in 0..Len(text) : StringLength(SubSeq(text, 1, k), "utf16") = end)

(* the offsets are counted in characters of the string *)
createUrlFacetsInChars(text, url) ==
    [byteStart |-> indexOf(text, url),
     byteEnd |-> indexOf(text, url) + StringLength(url, "utf16"),
     uri |-> url]

(* lines 617-636 *)
createUrlFacets(text, url) ==
    LET urlStart == indexOf(text, url)
        urlByteStart == StringLength(substring(text, urlStart), "utf8")
    IN  [byteStart |-> urlByteStart,
         byteEnd |-> urlByteStart + StringLength(url, "utf8"),
         uri |-> url]

RECURSIVE SeqsUpTo(_, _)
SeqsUpTo(chars, n) ==
    IF n = 0 THEN {<<>>}
    ELSE SeqsUpTo(chars, n - 1) \cup {Append(p, c) : p \in SeqsUpTo(chars, n - 1), c \in chars}

(* line 591: the reply text is a prefix followed by the privacy URL *)
FacetInputs ==
    {[text |-> prefix \o url, url |-> url] :
        prefix \in SeqsUpTo({"a", "e-acute", "euro", "emoji"}, MaxPrefix),
        url \in {<<"h", "/">>, <<"h", "/", "a">>, <<"a">>}}

NoFacet == [byteStart |-> -1, byteEnd |-> -1, uri |-> <<>>]

(* the call returns *)
FacetCall ==
    /\ exOut = NoFacet
    /\ exOut' = createUrlFacets(exIn.text, exIn.url)
    /\ UNCHANGED <<exIn, reply, botVars, fhVars>>

-----------------------------------------------------------------------------
(* Initial states *)

BotInit ==
    /\ isProcessing = [i \in Inst |-> FALSE]
    /\ recentlyProcessed = [i \in Inst |-> <<>>]
    /\ co = [i \in Inst |-> [s \in Slots |-> Idle]]
    /\ posted = EmptyBag
    /\ dispatched = [i \in Inst |-> <<>>]
    /\ cycles = 0
    /\ skipLogged = FALSE

(* part_003 lines 333-335; Date.now() is at least the minimum delay after   *)
(* the initial lastReplyTime of 0                                           *)
FhInit ==
    /\ processedPosts = {}
    /\ handler = [e \in FhEvents |-> FhNew]
    /\ fhPosted = EmptyBag
    /\ lastReplyTime = 0
    /\ now = minDelayBetweenReplies

(* no call of extractVideoInfo on its own is in progress *)
ExIdle ==
    /\ exIn = <<>>
    /\ exOut = NoInfo
    /\ reply = ReplyIdle

Init == BotInit /\ FhInit /\ ExIdle

InitExtract ==
    /\ BotInit
    /\ FhInit
    /\ exIn \in ExtractInputs
    /\ exOut = Pending
    /\ reply = ReplyIdle

(* createUrlFacets was called with a text and a URL of FacetInputs *)
InitFacets ==
    /\ BotInit
    /\ FhInit
    /\ exIn \in FacetInputs
    /\ exOut = NoFacet
    /\ reply = ReplyIdle

(* replyWithPrivacyLink was called with a reference of ReplyInputs *)
InitReply ==
    /\ BotInit
    /\ FhInit
    /\ exIn = <<>>
    /\ exOut = NoInfo
    /\ reply \in {[ReplyIdle EXCEPT !.pc = "start", !.info = info] : info \in ReplyInputs}

(* A process that has been running for a while: message 1 was dispatched    *)
(* and answered first, k - 1 other tagged messages were dispatched after it *)
EarlierUris(k) == [j \in 1..k |-> IF j = 1 THEN 1 ELSE Cardinality(Msgs) + j]

(* the insertions of us[lo..hi], in order *)
RECURSIVE InsertAll(_, _, _, _)
InsertAll(cache, us, lo, hi) ==
    IF lo > hi THEN cache
    ELSE IF lo = hi THEN addToProcessedCache(cache, us[lo])
    ELSE LET mid == (lo + hi) \div 2
             left == InsertAll(cache, us, lo, mid)
         IN  \* the test only makes TLC evaluate left before it goes on
             IF Len(left) >= 0 THEN InsertAll(left, us, mid + 1, hi) ELSE left

CacheAfterInserts(us) == InsertAll(<<>>, us, 1, Len(us))

PrefillSizes == {CACHE_SIZE - 1, CACHE_SIZE}

InitEvict ==
    \E k \in PrefillSizes :
        /\ isProcessing = [i \in Inst |-> FALSE]
        /\ recentlyProcessed = [i \in Inst |-> IF i = 1 THEN CacheAfterInserts(EarlierUris(k)) ELSE <<>>]
        /\ co = [i \in Inst |-> [s \in Slots |-> Idle]]
        /\ posted = SetToBag({ReplyRecord(1, 1)})
        /\ dispatched = [i \in Inst |-> IF i = 1 THEN EarlierUris(k) ELSE <<>>]
        /\ cycles = 0
        /\ skipLogged = FALSE
        /\ FhInit
        /\ ExIdle

-----------------------------------------------------------------------------
(* Actions *)

(* s is the first free frame of instance i *)
FreeFrame(i, s) ==
    /\ co[i][s].phase = "idle"
    /\ \A t \in Slots : t < s => co[i][t].phase # "idle"

(* lines 409-420: checkTimeline entered with the flag clear: sets it and calls searchPosts *)
CheckTimelineStart(i, s) ==
    /\ FreeFrame(i, s)
    /\ ~Busy(i)
    /\ cycles < MaxCycles
    /\ isProcessing' = [isProcessing EXCEPT ![i] = TRUE]
    /\ co' = [co EXCEPT ![i][s] = [phase |-> "search", batch |-> <<>>, st |-> <<>>]]
    /\ cycles' = cycles + 1
    /\ UNCHANGED <<recentlyProcessed, posted, dispatched, skipLogged, fhVars, exVars>>

(* lines 410-413: checkTimeline entered while a cycle is in flight *)
CheckTimelineSkip(i, s) ==
    /\ FreeFrame(i, s)
    /\ Busy(i)
    /\ skipLogged' = TRUE
    /\ UNCHANGED <<isProcessing, recentlyProcessed, co, posted, dispatched, cycles, fhVars, exVars>>

(* lines 420-436: searchPosts answered with batch b *)
SearchOk(i, s, b) ==
    /\ co[i][s].phase = "search"
    /\ IF filterThrows(b)
       THEN SetCo(i, s, [phase |-> "delay", batch |-> <<>>, st |-> <<>>])
       ELSE LET fb == filterRecentPosts(b)
            IN  SetCo(i, s, Settle("loop", recentlyProcessed[i], fb, [j \in 1..Len(fb) |-> "todo"]))
    /\ UNCHANGED <<recentlyProcessed, posted, dispatched, cycles, skipLogged, fhVars, exVars>>

(* lines 440-444: searchPosts failed *)
SearchFail(i, s) ==
    /\ co[i][s].phase = "search"
    /\ SetCo(i, s, [phase |-> "delay", batch |-> <<>>, st |-> <<>>])
    /\ UNCHANGED <<recentlyProcessed, posted, dispatched, cycles, skipLogged, fhVars, exVars>>

(* lines 444-445, 507-513: the one second delay elapsed, getTimeline is called *)
DelayDone(i, s) ==
    /\ co[i][s].phase = "delay"
    /\ SetCo(i, s, [phase |-> "timeline", batch |-> <<>>, st |-> <<>>])
    /\ UNCHANGED <<recentlyProcessed, posted, dispatched, cycles, skipLogged, fhVars, exVars>>

(* lines 510-517: getTimeline answered with feed b *)
TimelineOk(i, s, b) ==
    /\ co[i][s].phase = "timeline"
    /\ SetCo(i, s, Settle("fbloop", recentlyProcessed[i], b, [j \in 1..Len(b) |-> "todo"]))
    /\ UNCHANGED <<recentlyProcessed, posted, dispatched, cycles, skipLogged, fhVars, exVars>>

(* lines 518-520: getTimeline failed *)
TimelineFail(i, s) ==
    /\ co[i][s].phase = "timeline"
    /\ SetCo(i, s, Idle)
    /\ UNCHANGED <<recentlyProcessed, posted, dispatched, cycles, skipLogged, fhVars, exVars>>

(* candidate k of the call in frame s of instance i is awaiting the operation pc *)
Awaiting(i, s, k, pc) ==
    /\ co[i][s].phase \in {"loop", "fbloop"}
    /\ k \in 1..Len(co[i][s].st)
    /\ co[i][s].st[k] = pc

(* lines 475-490 with 336-358: the depth-1 thread fetch of candidate k settled *)
ThreadResp(i, s, k, fetchOk) ==
    /\ LET m == co[i][s].batch[k]
           replied == hasAlreadyReplied(m, fetchOk)
           cache == CacheAfterGuard(recentlyProcessed[i], m, replied)
           st1 == [co[i][s].st EXCEPT ![k] = IF replied THEN "done" ELSE Dispatch(m)]
       IN  /\ recentlyProcessed' = [recentlyProcessed EXCEPT ![i] = cache]
           /\ dispatched' = [dispatched EXCEPT ![i] = IF replied THEN @ ELSE Append(@, m)]
           /\ SetCo(i, s, Settle(co[i][s].phase, cache, co[i][s].batch, st1))
    /\ UNCHANGED <<posted, cycles, skipLogged, fhVars, exVars>>

(* the fetch answered *)
ThreadOk(i, s, k) ==
    /\ Awaiting(i, s, k, "thread")
    /\ ThreadResp(i, s, k, TRUE)

(* the fetch raised *)
ThreadFail(i, s, k) ==
    /\ Awaiting(i, s, k, "thread")
    /\ ThreadResp(i, s, k, FALSE)

(* lines 553-584: the depth-0 fetch of the parent settled *)
ParentResp(i, s, k, fetchOk) ==
    /\ LET m == co[i][s].batch[k]
           st1 == [co[i][s].st EXCEPT ![k] = IF fetchOk THEN processCommentParent(m) ELSE "done"]
       IN  SetCo(i, s, Settle(co[i][s].phase, recentlyProcessed[i], co[i][s].batch, st1))
    /\ UNCHANGED <<recentlyProcessed, posted, dispatched, cycles, skipLogged, fhVars, exVars>>

ParentOk(i, s, k) ==
    /\ Awaiting(i, s, k, "parent")
    /\ ParentResp(i, s, k, TRUE)

ParentFail(i, s, k) ==
    /\ Awaiting(i, s, k, "parent")
    /\ ParentResp(i, s, k, FALSE)

(* a failed post is caught nowhere: it is an error of the loop *)
PostRespRaising(i, s, k, postOk) ==
    /\ LET m == co[i][s].batch[k]
           st1 == [co[i][s].st EXCEPT ![k] = "done"]
       IN  /\ posted' = IF postOk THEN posted (+) SetToBag({ReplyRecord(i, m)}) ELSE posted
           /\ IF postOk
              THEN SetCo(i, s, Settle(co[i][s].phase, recentlyProcessed[i], co[i][s].batch, st1))
              ELSE SetCo(i, s, IF co[i][s].phase = "loop"
                               THEN [phase |-> "delay", batch |-> <<>>, st |-> <<>>]
                               ELSE [phase |-> "idle", batch |-> <<>>, st |-> <<>>])
    /\ UNCHANGED <<recentlyProcessed, dispatched, cycles, skipLogged, fhVars, exVars>>

(* lines 586-615: agent.post settled (postOk = FALSE: anything in the try threw) *)
PostResp(i, s, k, postOk) ==
    /\ LET m == co[i][s].batch[k]
           st1 == [co[i][s].st EXCEPT ![k] = "done"]
       IN  /\ posted' = IF postOk THEN posted (+) SetToBag({ReplyRecord(i, m)}) ELSE posted
           /\ SetCo(i, s, Settle(co[i][s].phase, recentlyProcessed[i], co[i][s].batch, st1))
    /\ UNCHANGED <<recentlyProcessed, dispatched, cycles, skipLogged, fhVars, exVars>>

PostOk(i, s, k) ==
    /\ Awaiting(i, s, k, "post")
    /\ PostResp(i, s, k, TRUE)

PostFail(i, s, k) ==
    /\ Awaiting(i, s, k, "post")
    /\ PostResp(i, s, k, FALSE)

(* lines 319-320, 325-330: the process is restarted between cycles: a new   *)
(* BskyBot starts with an empty cache and a clear flag (the restart of a    *)
(* process whose cache is empty changes nothing)                            *)
Restart(i) ==
    /\ \A s \in Slots : co[i][s].phase = "idle"
    /\ recentlyProcessed[i] # <<>>
    /\ recentlyProcessed' = [recentlyProcessed EXCEPT ![i] = <<>>]
    /\ dispatched' = [dispatched EXCEPT ![i] = <<>>]
    /\ isProcessing' = [isProcessing EXCEPT ![i] = FALSE]
    /\ UNCHANGED <<co, posted, cycles, skipLogged, fhVars, exVars>>

Next ==
    \/ \E i \in Inst, s \in Slots : CheckTimelineStart(i, s)
    \/ \E i \in Inst, s \in Slots : CheckTimelineSkip(i, s)
    \/ \E i \in Inst, s \in Slots, b \in SearchBatches : SearchOk(i, s, b)
    \/ \E i \in Inst, s \in Slots : SearchFail(i, s)
    \/ \E i \in Inst, s \in Slots : DelayDone(i, s)
    \/ \E i \in Inst, s \in Slots, b \in TimelineBatches : TimelineOk(i, s, b)
    \/ \E i \in Inst, s \in Slots : TimelineFail(i, s)
    \/ \E i \in Inst, s \in Slots, k \in 1..MaxBatch : ThreadOk(i, s, k)
    \/ \E i \in Inst, s \in Slots, k \in 1..MaxBatch : ThreadFail(i, s, k)
    \/ \E i \in Inst, s \in Slots, k \in 1..MaxBatch : ParentOk(i, s, k)
    \/ \E i \in Inst, s \in Slots, k \in 1..MaxBatch : ParentFail(i, s, k)
    \/ \E i \in Inst, s \in Slots, k \in 1..MaxBatch : PostOk(i, s, k)
    \/ \E i \in Inst, s \in Slots, k \in 1..MaxBatch : PostFail(i, s, k)
    \/ \E i \in Inst : Restart(i)

Spec == Init /\ [][Next]_vars

(* The same program started from a long-running process with a full cache *)
SpecEvict == InitEvict /\ [][Next]_vars

(* Two overlapping invocations with a reliable network and no restart *)
NextOverlap ==
    \/ \E i \in Inst, s \in Slots : CheckTimelineStart(i, s)
    \/ \E i \in Inst, s \in Slots : CheckTimelineSkip(i, s)
    \/ \E i \in Inst, s \in Slots, b \in SearchBatches : SearchOk(i, s, b)
    \/ \E i \in Inst, s \in Slots : DelayDone(i, s)
    \/ \E i \in Inst, s \in Slots, b \in TimelineBatches : TimelineOk(i, s, b)
    \/ \E i \in Inst, s \in Slots, k \in 1..MaxBatch : ThreadOk(i, s, k)
    \/ \E i \in Inst, s \in Slots, k \in 1..MaxBatch : ParentOk(i, s, k)
    \/ \E i \in Inst, s \in Slots, k \in 1..MaxBatch : PostOk(i, s, k)

SpecOverlap == Init /\ [][NextOverlap]_vars

(* FirehoseBot on its own *)
NextFirehose ==
    \/ \E e \in FhEvents : FhOnCreate(e)
    \/ \E e \in FhEvents : FhRepliedOk(e)
    \/ \E e \in FhEvents : FhRepliedFail(e)
    \/ \E e \in FhEvents : FhParentOk(e)
    \/ \E e \in FhEvents : FhParentFail(e)
    \/ \E e \in FhEvents : FhWaitDone(e)
    \/ \E e \in FhEvents : FhThreadOk(e)
    \/ \E e \in FhEvents : FhThreadFail(e)
    \/ \E e \in FhEvents : FhPrepareOk(e)
    \/ \E e \in FhEvents : FhPrepareFail(e)
    \/ \E e \in FhEvents : FhPostOk(e)
    \/ \E e \in FhEvents : FhPostFail(e)
    \/ FhTick

SpecFirehose == Init /\ [][NextFirehose]_vars

(* URLUtils.extractVideoInfo called on one argument of ExtractInputs *)
NextExtract == ExtractCall

SpecExtract == InitExtract /\ [][NextExtract]_vars

NextReply ==
    \/ ReplyStart
    \/ \E fetchOk \in BOOLEAN : \E target \in RedirectTargets(reply.info.url) : RedirectResp(fetchOk, target)
    \/ \E outcome \in {"ok", "status", "throw"} : ThumbResp(outcome)
    \/ \E uploadOk \in BOOLEAN : UploadResp(uploadOk)
    \/ \E postOk \in BOOLEAN : ReplyPostResp(postOk)

SpecReply == InitReply /\ [][NextReply]_vars

SpecFacets == InitFacets /\ [][FacetCall]_vars

-----------------------------------------------------------------------------
(* Properties *)

Running(i) == {s \in Slots : co[i][s].phase # "idle"}

(* C1: over any sequence of cycles of one bot, restarts between cycles and  *)
(* network failures allowed, the bot posts at most one reply to a message.  *)
C1_AtMostOneReply ==
    \A i \in Inst, m \in Msgs : NumRepliesBy(i, m) <= 1

(* C2: while a message's identifier is in recentlyProcessed no thread fetch *)
(* is started for it and it is not dispatched; with the cache intact a      *)
(* message is dispatched only once.                                         *)
C2_NoFetchOnHit ==
    \A i \in Inst, m \in Msgs :
        (m \in Range(recentlyProcessed[i]) /\ m \in Range(recentlyProcessed'[i])) =>
            /\ Count(m, dispatched'[i]) = Count(m, dispatched[i])
            /\ \A s \in Slots : \A k \in 1..Len(co'[i][s].st) :
                   (co'[i][s].st[k] = "thread" /\ co'[i][s].batch[k] = m) =>
                       /\ co[i][s].batch = co'[i][s].batch
                       /\ co[i][s].st[k] = "thread"

C2_DispatchedOnce ==
    \A i \in Inst : \A m \in Range(recentlyProcessed[i]) : Count(m, dispatched[i]) = 1

C2_FastPath == [][C2_NoFetchOnHit]_vars /\ []C2_DispatchedOnce

(* message 1 and 4 were dispatched by an earlier cycle; the running cycle   *)
(* went past message 1 without dispatching it and is handling message 2     *)
C2_Witness ==
    \E i \in Inst, s \in Slots :
        /\ dispatched[i] = <<1, 4, 2>>
        /\ co[i][s].batch = <<1, 2>>
        /\ co[i][s].st = <<"done", "parent">>

(* C3: when the depth-1 thread fetch succeeds and the thread holds a direct *)
(* reply by the bot, the message is skipped: not cached, not dispatched,    *)
(* no extraction and no reply for it.                                       *)
C3_SkipStep ==
    \A i \in Inst, s \in Slots, k \in 1..MaxBatch :
        (ThreadOk(i, s, k) /\ Handle \in DirectReplyAuthors(co[i][s].batch[k])) =>
            /\ recentlyProcessed'[i] = recentlyProcessed[i]
            /\ dispatched'[i] = dispatched[i]
            /\ posted' = posted
            /\ co'[i][s].phase \in {"loop", "fbloop"} => co'[i][s].st[k] = "done"

C3_AuthoritativePath == [][C3_SkipStep]_vars

(* a fresh process (empty cache, nothing dispatched) went past message 1,   *)
(* which already has a reply of the bot, and is checking message 2          *)
C3_Witness ==
    \E i \in Inst, s \in Slots :
        /\ recentlyProcessed[i] = <<>>
        /\ dispatched[i] = <<>>
        /\ NumReplies(1) = 1
        /\ co[i][s].batch = <<1, 2>>
        /\ co[i][s].st = <<"done", "thread">>

(* C4: at most one cycle of an instance is in flight; a checkTimeline call  *)
(* made while one is in flight starts nothing and changes nothing.          *)
C4_OneCycle == \A i \in Inst : Cardinality(Running(i)) <= 1

C4_NoStartWhileRunning ==
    \A i \in Inst :
        Running(i) # {} =>
            \A s \in Slots : co[i][s].phase = "idle" => co'[i][s].phase = "idle"

C4_SkipChangesNothing ==
    skipLogged' # skipLogged =>
        UNCHANGED <<isProcessing, recentlyProcessed, co, posted, dispatched, cycles>>

C4_SingleCycle ==
    []C4_OneCycle /\ [][C4_NoStartWhileRunning /\ C4_SkipChangesNothing]_vars

(* a trigger was skipped while a cycle awaits a thread fetch *)
C4_Witness ==
    /\ skipLogged
    /\ \E i \in Inst, s \in Slots :
           /\ co[i][s].phase = "loop"
           /\ co[i][s].st[1] = "thread"
           /\ \A t \in Slots \ {s} : co[i][t].phase = "idle"

(* C5: no message receives a reply from both of two overlapping invocations *)
C5_NoReplyFromBoth ==
    \A m \in Msgs : ~(NumRepliesBy(1, m) >= 1 /\ NumRepliesBy(2, m) >= 1)

(* C6: the candidates of a cycle are handled one after the other: at most   *)
(* one is awaiting an operation, all before it are finished, all after it   *)
(* are not started; an instance never has two reply posts in flight.        *)
C6_Shape(c) ==
    \A k \in 1..Len(c.st) :
        c.st[k] # "todo" => \A j \in 1..(k - 1) : c.st[j] = "done"

C6_Sequential ==
    \A i \in Inst :
        /\ \A s \in Slots : C6_Shape(co[i][s])
        /\ Cardinality({p \in Slots \X (1..MaxBatch) :
               p[2] <= Len(co[i][p[1]].st) /\ co[i][p[1]].st[p[2]] = "post"}) <= 1

(* message 1 is finished and cached, message 2 is being handled *)
C6_Witness ==
    \E i \in Inst, s \in Slots :
        /\ co[i][s].batch = <<1, 2>>
        /\ co[i][s].st = <<"done", "thread">>
        /\ dispatched[i] = <<1>>
        /\ NumRepliesBy(i, 1) = 1

(* C7 as stated: every identifier in the cache belongs to a message for     *)
(* which a reply post succeeded.                                            *)
C7_CachedImpliesReplied ==
    \A i \in Inst : \A m \in Range(recentlyProcessed[i]) : NumReplies(m) >= 1

(* C7 amended: every identifier in the cache belongs to a tagged message    *)
(* that passed both guard tiers in this process (it was handed on to        *)
(* extraction); a reply to it need not have been posted.                    *)
C7_CachedImpliesDispatched ==
    \A i \in Inst : \A m \in Range(recentlyProcessed[i]) :
        /\ m \in Range(dispatched[i])
        /\ containsHashtag(Post(m).text)

(* message 4 (no link record) is cached, its cycle is over, nobody replied *)
C7_Witness ==
    \E i \in Inst :
        /\ 4 \in Range(recentlyProcessed[i])
        /\ NumReplies(4) = 0
        /\ Running(i) = {}

(* C8: the cache never holds more than CACHE_SIZE identifiers.              *)
C8_CacheBounded ==
    \A i \in Inst : Len(recentlyProcessed[i]) <= CACHE_SIZE

(* an insertion filled the cache to exactly its capacity *)
C8_Witness ==
    \E i \in Inst :
        /\ Len(recentlyProcessed[i]) = CACHE_SIZE
        /\ recentlyProcessed[i][CACHE_SIZE] \in Msgs

(* C9: an insertion that makes the cache exceed its capacity leaves exactly *)
(* the 50 most recently inserted identifiers, the new one included, in      *)
(* insertion order; any other insertion only appends.                       *)
C9_InsertStep ==
    \A i \in Inst, m \in Msgs :
        dispatched'[i] = Append(dispatched[i], m) =>
            IF Len(recentlyProcessed[i]) + 1 > CACHE_SIZE
            THEN recentlyProcessed'[i] = LastN(dispatched'[i], KEEP_SIZE)
            ELSE recentlyProcessed'[i] = Append(recentlyProcessed[i], m)

C9_EvictionBoundary == [][C9_InsertStep]_vars

(* the cache was trimmed: 101 insertions, the last 50 are held, message 1 is gone *)
C9_Witness ==
    \E i \in Inst :
        /\ Len(dispatched[i]) = CACHE_SIZE + 1
        /\ Len(recentlyProcessed[i]) = KEEP_SIZE
        /\ 1 \notin Range(recentlyProcessed[i])

(* C10: a message that was trimmed from the cache and is dispatched again   *)
(* by the same process does not get a second reply.                         *)
C10_EvictionNoSecondReply ==
    \A i \in Inst, m \in Msgs :
        Count(m, dispatched[i]) >= 2 => NumRepliesBy(i, m) <= 1

-----------------------------------------------------------------------------
(* Error handling of the scan cycle *)

(* C11: an error raised while one candidate is handled stays with that      *)
(* candidate: a cycle that is working through its batch never leaves the    *)
(* batch for the fallback, the remaining candidates are handled.            *)
C11_LoopStep ==
    \A i \in Inst, s \in Slots :
        co[i][s].phase = "loop" => co'[i][s].phase # "delay"

C11_Isolation == [][C11_LoopStep]_vars

PhaseRank(p) ==
    CASE p = "search" -> 1
      [] p = "loop" -> 2
      [] p = "delay" -> 3
      [] p = "timeline" -> 4
      [] p = "fbloop" -> 5
      [] OTHER -> 6

(* C12: a failed search leads to the delay, the timeline listing is called  *)
(* only out of the delay and once per cycle; when it fails the cycle ends   *)
(* (flag released) and no listing is called again in that cycle.            *)
C12_Step ==
    \A i \in Inst, s \in Slots :
        LET p == co[i][s].phase
            q == co'[i][s].phase
        IN  /\ SearchFail(i, s) => q = "delay"
            /\ (q = "timeline" /\ p # "timeline") => p = "delay"
            /\ p = "delay" => q \in {"delay", "timeline"}
            /\ p = "timeline" => q \in {"timeline", "fbloop", "idle"}
            /\ TimelineFail(i, s) => (q = "idle" /\ ~isProcessing'[i])
            /\ p # "idle" => PhaseRank(q) >= PhaseRank(p)

C12_OneFallback == [][C12_Step]_vars

(* the first cycle: nothing was dispatched, so the batch was never entered; *)
(* the search failed, the delay elapsed and the timeline listing answered   *)
C12_Witness ==
    /\ cycles = 1
    /\ \A i \in Inst : dispatched[i] = <<>>
    /\ \E i \in Inst, s \in Slots : co[i][s].phase = "fbloop"

(* the candidates after k that the loop reaches next: j is the first one    *)
(* whose guard calls the thread fetch, all between k and j return at once   *)
NextFetch(cache, batch, k) ==
    {j \in (k + 1)..Len(batch) :
        /\ SyncPrefix(cache, batch[j]) = "await"
        /\ \A l \in (k + 1)..(j - 1) : SyncPrefix(cache, batch[l]) = "false"}

(* C13: a failed reply post adds no reply and is no error of the cycle: the *)
(* loop goes on to the next candidate, and after the last one the cycle     *)
(* ends with the flag released.                                             *)
C13_Step ==
    \A i \in Inst, s \in Slots, k \in 1..MaxBatch :
        PostFail(i, s, k) =>
            LET c == co[i][s]
                rest == (k + 1)..Len(c.batch)
                nf == NextFetch(recentlyProcessed[i], c.batch, k)
            IN  /\ posted' = posted
                /\ \A j \in nf :
                       /\ co'[i][s].phase = c.phase
                       /\ co'[i][s].st[j] = "thread"
                       /\ \A l \in 1..(j - 1) : co'[i][s].st[l] = "done"
                /\ (\A l \in rest : SyncPrefix(recentlyProcessed[i], c.batch[l]) = "false") =>
                       (co'[i][s].phase = "idle" /\ ~isProcessing'[i])

C13_PostFailureContained == [][C13_Step]_vars

(* message 1 was dispatched and nobody replied to it: its post failed; the  *)
(* cycle is checking message 2                                              *)
C13_Witness ==
    \E i \in Inst, s \in Slots :
        /\ co[i][s].batch = <<1, 2>>
        /\ co[i][s].st = <<"done", "thread">>
        /\ dispatched[i] = <<1>>
        /\ NumReplies(1) = 0

-----------------------------------------------------------------------------
(* Which message the reference is taken from, and where the reply is attached *)

(* C14: the reference of a reply to a comment is the one of the parent's    *)
(* link record, whatever the comment's own link record holds; the reference *)
(* of a reply to a root post is the one of the post's own link record.      *)
C14_ThreadDelegation ==
    \A r \in BagToSet(posted) :
        LET src == IF isReply(r.trigger) THEN parentUri(r.trigger) ELSE r.trigger
        IN  /\ Post(src).embed # NoUrl
            /\ r.video = extractVideoInfo(Post(src).embed)
            /\ r.video.platform # "none"

(* comment 2 links a YouTube video itself; the reply to it carries the      *)
(* Vimeo reference of its parent 3                                          *)
C14_Witness ==
    /\ extractVideoInfo(Post(2).embed).platform = "youtube"
    /\ \E r \in BagToSet(posted) : r.trigger = 2 /\ r.video.platform = "vimeo"

(* C16: the parent of a posted reply is the trigger; its root is the        *)
(* trigger's thread root when the trigger is a comment, else the trigger.   *)
C16_ThreadLinkage ==
    \A r \in BagToSet(posted) :
        /\ r.parent = r.trigger
        /\ r.root = IF isReply(r.trigger) THEN Post(r.trigger).root ELSE r.trigger

(* comment 8 (parent 2, root 3) got a reply with root 3 and parent 8 *)
C16_Witness ==
    /\ Post(8).parent = 2
    /\ \E r \in BagToSet(posted) : r.trigger = 8 /\ r.root = 3 /\ r.parent = 8

(* the trigger's link record is recognized as platform a, its body text     *)
(* holds a link recognized as another platform                              *)
EmbedAndOtherText(m) ==
    /\ ~isReply(m)
    /\ Post(m).embed # NoUrl
    /\ extractVideoInfo(Post(m).embed).platform # "none"
    /\ extractVideoInfo(Post(m).textUrl).platform
           \notin {"none", extractVideoInfo(Post(m).embed).platform}

(* C17: when the link record and the body text of a post point to videos on *)
(* different platforms, the reply is built from the link record's.          *)
C17_RecordBeforeText ==
    \A r \in BagToSet(posted) :
        EmbedAndOtherText(r.trigger) =>
            /\ r.video.platform = extractVideoInfo(Post(r.trigger).embed).platform
            /\ r.video.url = Post(r.trigger).embed

(* post 1 (YouTube link record, Vimeo link in the text) got its reply *)
C17_Witness ==
    /\ EmbedAndOtherText(1)
    /\ \E r \in BagToSet(posted) : r.trigger = 1 /\ r.video.platform = "youtube"

(* a root post without link record whose link facet is recognized *)
FacetOnly(m) ==
    /\ ~isReply(m)
    /\ Post(m).embed = NoUrl
    /\ extractVideoInfo(Post(m).facetUrl).platform # "none"

(* candidate m of instance i is at the reply step *)
AtReplyStep(i, m) ==
    \E s \in Slots : \E k \in 1..Len(co'[i][s].st) :
        co'[i][s].batch[k] = m /\ co'[i][s].st[k] = "post"

(* C18 as stated: a post without link record and with a recognized link     *)
(* facet yields the facet's reference: once it is through the guard the     *)
(* reply step is called for it.                                             *)
C18_FacetStep ==
    \A i \in Inst, m \in Msgs :
        (dispatched'[i] = Append(dispatched[i], m) /\ FacetOnly(m)) => AtReplyStep(i, m)

C18_FacetReference == [][C18_FacetStep]_vars

(* C18 amended: link facets are not consulted: a post without link record   *)
(* and with a recognized link facet yields no reference, the reply step is  *)
(* not called for it and it gets no reply.                                  *)
C18_NoFacetStep ==
    \A i \in Inst, m \in Msgs :
        (dispatched'[i] = Append(dispatched[i], m) /\ FacetOnly(m)) => ~AtReplyStep(i, m)

C18_FacetsNotConsulted ==
    /\ [][C18_NoFacetStep]_vars
    /\ [](\A m \in Msgs : FacetOnly(m) => NumReplies(m) = 0)

(* post 4 (Vimeo link facet, no link record) went through the guard, its    *)
(* cycle is over and it has no reply                                        *)
C18_Witness ==
    /\ FacetOnly(4)
    /\ \E i \in Inst : 4 \in Range(dispatched[i]) /\ Running(i) = {}
    /\ NumReplies(4) = 0

(* the message whose link record stands for trigger m *)
SourceOf(m) == IF isReply(m) THEN parentUri(m) ELSE m

(* C19: a trigger whose source message (itself, or its parent when it is a  *)
(* comment) has no link record gets no reply, whatever link its body text   *)
(* holds.                                                                   *)
C19_NoTextFallback ==
    \A m \in Msgs : Post(SourceOf(m)).embed = NoUrl => NumReplies(m) = 0

(* post 4 (cut-off YouTube link in the text) and comment 9 (its parent 4    *)
(* has no link record) went through the guard of the same process           *)
C19_Witness ==
    /\ extractVideoInfo(Post(4).textUrl).platform = "youtube"
    /\ \E i \in Inst : {4, 9} \subseteq Range(dispatched[i])

(* C15: a trigger that is a comment and whose parent could not be fetched   *)
(* gets no reply.                                                           *)
C15_NoReplyAfterParentFailure ==
    \A e \in FhEvents :
        handler[e].parent = "failed" =>
            \A r \in BagToSet(fhPosted) : r.event # e

-----------------------------------------------------------------------------
(* The recognizers *)

(* C20: extractVideoInfo returns no YouTube reference whose identifier has  *)
(* fewer than eleven characters.                                            *)
C20_NoShortIdentifier ==
    exOut.platform = "youtube" => Len(exOut.id) >= YT_ID_LEN
-----------------------------------------------------------------------------
(* The place of a site in the order of the recognizers: YouTube, Vimeo,     *)
(* TikTok, Twitch video, Twitch clip, Dailymotion; 0 for a site of no       *)
(* platform                                                                 *)
RecognizerRank(site) ==
    CASE site \in {"youtube.com/watch?v=", "youtu.be/", "youtube.com/shorts/"} -> 1
      [] site \in {"vimeo.com/", "vimeo.com/video/"} -> 2
      [] site \in {"tiktok.com/@user/video/", "vm.tiktok.com/", "tiktok.com/t/"} -> 3
      [] site = "twitch.tv/videos/" -> 4
      [] site \in {"twitch.tv/user/clip/", "clips.twitch.tv/"} -> 5
      [] site = "dailymotion.com/video/" -> 6
      [] OTHER -> 0

(* the lines of a text that hold the URL of a platform, and the least rank *)
(* among them                                                               *)
RankedLines(text) == {j \in 1..Len(text) : RecognizerRank(text[j].site) > 0}

LeastRank(text) ==
    CHOOSE r \in {RecognizerRank(text[j].site) : j \in RankedLines(text)} :
        \A j \in RankedLines(text) : r <= RecognizerRank(text[j].site)

(* C21: the recognizers are tried in one fixed order and the first that     *)
(* matches anywhere in the input wins: for a text with the URLs of two      *)
(* platforms the result is the reference of the recognizer earlier in the   *)
(* order, and it is the same with the two URLs in the other order.          *)
C21_FixedOrder ==
    (exOut # Pending /\ Len(exIn) = 2) =>
        IF RankedLines(exIn) = {} THEN exOut = NoInfo
        ELSE /\ exOut.platform # "none"
             /\ RecognizerRank(exOut.url.site) = LeastRank(exIn)
             /\ \E j \in RankedLines(exIn) :
                    /\ RecognizerRank(exIn[j].site) = LeastRank(exIn)
                    /\ exOut.url = exIn[j]
                    /\ exOut.id = exIn[j].id
             /\ extractVideoInfoIn(<<exIn[2], exIn[1]>>).platform = exOut.platform
             /\ RecognizerRank(extractVideoInfoIn(<<exIn[2], exIn[1]>>).url.site) = LeastRank(exIn)

(* a Dailymotion URL stands before a YouTube URL, and a Twitch clip before  *)
(* a Twitch video: the later URL is the one returned                        *)
C21_Witness ==
    /\ exOut # Pending
    /\ Len(exIn) = 2
    /\ exIn[1].site = "dailymotion.com/video/"
    /\ exIn[2].site = "youtu.be/"
    /\ exOut.platform = "youtube"
    /\ exOut.url = exIn[2]

(* C22: for a recognized URL with trailing parameters the identifier and    *)
(* the canonical URL are those of the URL without them, and the canonical   *)
(* URL does not contain the trailing parameters.                            *)
C22_SuffixDiscarded ==
    (exOut # Pending /\ Len(exIn) = 1 /\ exOut.platform # "none") =>
        LET bare == extractVideoInfoIn(<<[exIn[1] EXCEPT !.rest = ""]>>)
        IN  /\ exOut.id = bare.id
            /\ exOut.url = bare.url
            /\ exOut.url.rest = ""

-----------------------------------------------------------------------------
C25_ResolutionReturnsOriginal ==
    [][(\E t \in RedirectTargets(reply.info.url) : RedirectResp(FALSE, t)) =>
          /\ reply'.resolved = reply.info.url
          /\ reply'.ref = extractVideoInfo(reply.info.url)
          /\ reply'.pc = "post"]_vars

(* C25, amended: when the outbound fetch fails, resolution returns no URL   *)
(* (null); link building completes from the unresolved reference, and the   *)
(* composer goes on to post: no error is raised into the pipeline.          *)
C25_FailureDegrades ==
    [][(\E t \in RedirectTargets(reply.info.url) : RedirectResp(FALSE, t)) =>
          /\ reply'.resolved = NoUrl
          /\ reply'.ref = extractVideoInfo(reply.info.url)
          /\ reply'.link = <<"https://", privacyDomain, "/video?video=">> \o encodeURIComponent(reply.info.url)
          /\ reply'.pc = "post"]_vars

(* a reply built from a short link was posted after its resolution failed *)
C25_Witness ==
    /\ reply.pc = "sent"
    /\ reply.fetches = 1
    /\ reply.resolved = NoUrl
    /\ reply.ref = reply.info
    /\ reply.link # <<>>

(* the opaque short-link shapes of TikTok *)
ShortLinkShape(u) == u.site \in {"vm.tiktok.com/", "tiktok.com/t/"}

(* C26: building a link performs exactly one outbound fetch, never a second *)
(* one, when the reference is a TikTok short link (vm.tiktok.com or         *)
(* tiktok.com/t/), and no outbound fetch for any other reference.           *)
C26_OneFetchShortLinksOnly ==
    /\ reply.fetches <= 1
    /\ reply.fetches = 1 => ShortLinkShape(reply.info.url)
    /\ (reply.pc \notin {"idle", "start"} /\ ShortLinkShape(reply.info.url)) => reply.fetches = 1

(* a short link was resolved to the page of the video with one fetch, and   *)
(* the reply was posted                                                     *)
C26_Witness ==
    /\ reply.pc = "sent"
    /\ reply.fetches = 1
    /\ ShortLinkShape(reply.info.url)
    /\ reply.ref.url.site = "tiktok.com/@user/video/"

(* C29: a reply carries a preview record iff the platform of the reference  *)
(* is YouTube; when the thumbnail fetch or the upload fails, agent.post is  *)
(* still called, with a preview record that holds the default title and     *)
(* description and no thumbnail.                                            *)
C29_PreviewRecord ==
    /\ [](reply.pc \in {"post", "sent", "failed"} =>
            /\ (reply.embed # NoEmbed) <=> (reply.info.platform = "youtube")
            /\ reply.embed # NoEmbed =>
                  /\ reply.embed.uri = reply.link
                  /\ reply.embed.title = "WATCH: With Video Privacy"
                  /\ reply.embed.description =
                        "Use Hashtag #VideoPrivacy to watch without tracking, data collection or ads")
    /\ [][((\E o \in {"status", "throw"} : ThumbResp(o)) \/ UploadResp(FALSE)) =>
             /\ reply'.pc = "post"
             /\ reply'.embed # NoEmbed
             /\ ~reply'.embed.thumb
             /\ reply'.embed.title = "WATCH: With Video Privacy"]_vars

(* a reply to a YouTube reference was posted with a preview record that has *)
(* no thumbnail                                                             *)
C29_Witness ==
    /\ reply.pc = "sent"
    /\ reply.info.platform = "youtube"
    /\ reply.embed # NoEmbed
    /\ ~reply.embed.thumb

-----------------------------------------------------------------------------
RECURSIVE Utf8(_)
(* the UTF-8 encoding of a text: byte k of character c is <<c, k>> *)
Utf8(s) ==
    IF s = <<>> THEN <<>>
    ELSE [k \in 1..CharWidth(Head(s), "utf8") |-> <<Head(s), k>>] \o Utf8(Tail(s))

(* the characters of text in front of the first place where url stands *)
Preceding(text, url) ==
    SubSeq(text, 1, CHOOSE k \in 0..Len(text) :
                        /\ SubSeq(text, k + 1, k + Len(url)) = url
                        /\ \A l \in 0..(k - 1) : SubSeq(text, l + 1, l + Len(url)) # url)

(* C24: byteStart is the UTF-8 byte length of the text preceding the URL    *)
(* and byteEnd is byteStart plus the UTF-8 byte length of the URL: the      *)
(* range is measured in encoded bytes, lies within the encoded text and     *)
(* covers exactly the URL, also when multi-byte characters precede it.      *)
C24_ByteOffsets ==
    exOut # NoFacet =>
        /\ exOut.byteStart = Len(Utf8(Preceding(exIn.text, exIn.url)))
        /\ exOut.byteEnd = exOut.byteStart + Len(Utf8(exIn.url))
        /\ exOut.byteEnd <= Len(Utf8(exIn.text))
        /\ SubSeq(Utf8(exIn.text), exOut.byteStart + 1, exOut.byteEnd) = Utf8(exIn.url)

(* a four-byte and a three-byte character precede the URL: seven bytes,     *)
(* three code units                                                         *)
C24_Witness ==
    /\ exIn.text = <<"emoji", "euro", "h", "/">>
    /\ exIn.url = <<"h", "/">>
    /\ exOut.byteStart = 7
    /\ exOut.byteEnd = 9

-----------------------------------------------------------------------------
(* C27: a candidate older than MAX_AGE_HOURS is discarded before processing *)
(* on the search path and on the fallback path alike: it is never           *)
(* guard-checked, never dispatched and never replied to.                    *)
C27_StaleDiscarded ==
    \A m \in Msgs :
        Post(m).ageHours > MAX_AGE_HOURS =>
            /\ \A i \in Inst, s \in Slots, k \in 1..MaxBatch :
                  ~(Awaiting(i, s, k, "thread") /\ co[i][s].batch[k] = m)
            /\ \A i \in Inst : m \notin Range(dispatched[i])
            /\ NumReplies(m) = 0

(* the tag stands in the text in some letter case *)
TagIn(text) ==
    \E off \in 0..Len(text) :
        /\ off + Len(Hashtag) <= Len(text)
        /\ \A j \in 1..Len(Hashtag) :
              \/ text[off + j] = Hashtag[j]
              \/ {text[off + j], Hashtag[j]} \in {{"v", "V"}, {"p", "P"}, {"x", "X"}}

(* C28: a message is eligible iff its text contains the tag in any letter   *)
(* case: no thread fetch, no dispatch and no reply is made for a message    *)
(* without the tag, and when a batch is installed a message with the tag is *)
(* passed over without a fetch only when the cache holds it; on both paths. *)
C28_TagMatching ==
    /\ [](/\ \A i \in Inst, s \in Slots, k \in 1..MaxBatch :
                (\E pc \in {"thread", "parent", "post"} : Awaiting(i, s, k, pc)) =>
                    TagIn(Post(co[i][s].batch[k]).text)
          /\ \A m \in Msgs :
                (NumReplies(m) > 0 \/ \E i \in Inst : m \in Range(dispatched[i])) => TagIn(Post(m).text))
    /\ [][\A i \in Inst, s \in Slots, k \in 1..MaxBatch :
             (/\ co[i][s].phase \in {"search", "timeline"}
              /\ co'[i][s].phase \in {"loop", "fbloop"}
              /\ k \in 1..Len(co'[i][s].st)
              /\ co'[i][s].st[k] = "done") =>
                 \/ ~TagIn(Post(co'[i][s].batch[k]).text)
                 \/ co'[i][s].batch[k] \in Range(recentlyProcessed[i])]_vars

(* on the fallback path message 7 (no tag) was passed over without a fetch  *)
(* and the thread of message 1 (tag in upper case) is being fetched         *)
C28_Witness ==
    \E i \in Inst, s \in Slots :
        /\ co[i][s].phase = "fbloop"
        /\ co[i][s].batch = <<7, 5, 1>>
        /\ co[i][s].st[1] = "done"
        /\ co[i][s].st[3] = "thread"
        /\ ~TagIn(Post(7).text)
        /\ TagIn(Post(1).text)
        /\ Post(1).text # toLowerCase(Post(1).text)

-----------------------------------------------------------------------------
(* C30: any two reply dispatches of FirehoseBot are separated by at least   *)
(* minDelayBetweenReplies, also when the handlers of several events are     *)
(* interleaved.                                                             *)
C30_MinimumDelay ==
    \A d \in FhEvents, e \in FhEvents :
        (d # e /\ handler[d].sentAt >= 0 /\ handler[e].sentAt >= handler[d].sentAt) =>
            handler[e].sentAt - handler[d].sentAt >= minDelayBetweenReplies

-----------------------------------------------------------------------------
(* C31: a reply is posted for a candidate only if a recognizer matched the  *)
(* link record consulted; when none matches (or there is no link record)    *)
(* nothing is posted and nothing is raised: the candidate is finished and   *)
(* the cycle goes on with the next candidate the guard lets through, or     *)
(* ends when there is none.                                                 *)
C31_MissStep ==
    \A i \in Inst, s \in Slots, k \in 1..MaxBatch :
        LET m == co[i][s].batch[k]
            c == co'[i][s]
        IN  (\/ /\ Awaiting(i, s, k, "thread")
                /\ dispatched'[i] = Append(dispatched[i], m)
                /\ ~isReply(m)
                /\ extractVideoInfo(Post(m).embed) = NoInfo
             \/ /\ ParentOk(i, s, k)
                /\ extractVideoInfo(Post(parentUri(m)).embed) = NoInfo) =>
                /\ posted' = posted
                /\ (\A j \in (k + 1)..Len(co[i][s].batch) : Post(co[i][s].batch[j]).textIsString) =>
                      \/ /\ c.phase = co[i][s].phase
                         /\ c.st[k] = "done"
                         /\ \E j \in (k + 1)..Len(c.st) : c.st[j] = "thread"
                      \/ /\ c.phase = "idle"
                         /\ \A j \in (k + 1)..Len(co[i][s].batch) :
                               SyncPrefix(recentlyProcessed'[i], co[i][s].batch[j]) = "false"

C31_ExtractionMissSkips ==
    /\ [](\A r \in BagToSet(posted) :
            /\ r.video # NoInfo
            /\ Post(SourceOf(r.trigger)).embed # NoUrl
            /\ r.video = extractVideoInfo(Post(SourceOf(r.trigger)).embed))
    /\ [][C31_MissStep]_vars

(* message 4 (no link record) was handed on to extraction, got no reply,    *)
(* and the cycle is at the next candidate, message 1                        *)
C31_Witness ==
    \E i \in Inst, s \in Slots :
        /\ co[i][s].batch = <<11, 4, 1>>
        /\ co[i][s].st = <<"done", "done", "thread">>
        /\ dispatched[i] = <<4>>
        /\ NumReplies(4) = 0

-----------------------------------------------------------------------------
(* C32: when the depth-1 thread fetch raises, hasAlreadyReplied returns     *)
(* false: the message counts as not yet replied-to, is inserted into the    *)
(* cache and handed on to extraction and reply dispatch; it is not skipped  *)
(* and the cycle is not aborted.                                            *)
C32_FailStep ==
    \A i \in Inst, s \in Slots, k \in 1..MaxBatch :
        ThreadFail(i, s, k) =>
            LET m == co[i][s].batch[k]
                c == co'[i][s]
            IN  /\ ~hasAlreadyReplied(m, FALSE)
                /\ dispatched'[i] = Append(dispatched[i], m)
                /\ m \in Range(recentlyProcessed'[i])
                /\ Dispatch(m) # "done" =>
                      /\ c.phase = co[i][s].phase
                      /\ c.batch = co[i][s].batch
                      /\ c.st[k] = Dispatch(m)

C32_FailsOpen == [][C32_FailStep]_vars

(* the thread fetch for message 1 raised in a process that holds no cache   *)
(* entry for it any more: the reply is being posted although the bot's      *)
(* earlier reply to message 1 stands in the thread                          *)
C32_Witness ==
    \E i \in Inst, s \in Slots, k \in 1..MaxBatch :
        /\ Awaiting(i, s, k, "post")
        /\ co[i][s].batch[k] = 1
        /\ NumRepliesBy(i, 1) = 1
        /\ Handle \in DirectReplyAuthors(1)

-----------------------------------------------------------------------------
(* C33: every cycle that ends, after a normal scan, after a failed primary  *)
(* listing and a fallback, or after both failed, leaves isProcessing false, *)
(* so the next trigger starts a cycle; a trigger that is skipped because a  *)
(* cycle is in flight leaves the flag of that cycle set.                    *)
C33_EndStep ==
    \A i \in Inst :
        /\ (\E s \in Slots : co[i][s].phase # "idle" /\ co'[i][s].phase = "idle") =>
              /\ ~isProcessing'[i]
              /\ Running(i)' = {}
        /\ (\E s \in Slots : SearchFail(i, s) \/ TimelineFail(i, s) \/ DelayDone(i, s)) =>
              (isProcessing'[i] <=> Running(i)' # {})
        /\ (\E s \in Slots : CheckTimelineSkip(i, s)) =>
              (isProcessing'[i] /\ Running(i)' = Running(i) /\ Running(i) # {})

C33_FlagReleased ==
    /\ [](\A i \in Inst : Running(i) = {} => ~isProcessing[i])
    /\ [][C33_EndStep]_vars

(* a cycle that went through the fallback (message 5 is only listed there)  *)
(* has ended and the next trigger started a new cycle                       *)
C33_Witness ==
    \E i \in Inst, s \in Slots :
        /\ 5 \in Range(dispatched[i])
        /\ co[i][s].phase = "search"
        /\ isProcessing[i]
        /\ Running(i) = {s}

-----------------------------------------------------------------------------
(* C34: when processPostIfNeeded rejects a candidate (no text, no tag,      *)
(* cache hit, or the thread fetch found a reply of the bot) the cache stays *)
(* as it was and nothing is posted; a message rejected by the thread check  *)
(* is not in the cache afterwards, so its next appearance is checked over   *)
(* the network again.                                                       *)
C34_RejectStep ==
    /\ \A i \in Inst :
          dispatched'[i] = dispatched[i] => recentlyProcessed'[i] = recentlyProcessed[i]
    /\ posted' # posted =>
          \E i \in Inst, m \in Msgs :
              /\ posted' = posted (+) SetToBag({ReplyRecord(i, m)})
              /\ m \in Range(dispatched[i])
    /\ \A i \in Inst, s \in Slots, k \in 1..MaxBatch :
          (ThreadOk(i, s, k) /\ Handle \in DirectReplyAuthors(co[i][s].batch[k])) =>
              /\ co[i][s].batch[k] \notin Range(recentlyProcessed'[i])
              /\ SyncPrefix(recentlyProcessed'[i], co[i][s].batch[k]) = "await"
    /\ \A i \in Inst, s \in Slots :
          (co[i][s].phase \in {"search", "timeline"} /\ co'[i][s].phase \in {"loop", "fbloop"}) =>
              \A k \in 1..Len(co'[i][s].st) :
                  co'[i][s].st[k] = "done" =>
                      /\ SyncPrefix(recentlyProcessed[i], co'[i][s].batch[k]) = "false"
                      /\ recentlyProcessed'[i] = recentlyProcessed[i]
                      /\ posted' = posted

C34_SkipLeavesGuard == [][C34_RejectStep]_vars

(* a process that never dispatched anything went past message 1 after the   *)
(* thread fetch showed the bot's reply to it: its cache is still empty and  *)
(* it is checking message 4                                                 *)
C34_Witness ==
    \E i \in Inst, s \in Slots :
        /\ co[i][s].batch = <<1, 4>>
        /\ co[i][s].st = <<"done", "thread">>
        /\ NumReplies(1) = 1
        /\ recentlyProcessed[i] = <<>>
        /\ dispatched[i] = <<>>

-----------------------------------------------------------------------------
(* C35: a message that passed both guard tiers is inserted into the cache   *)
(* at the moment it is dispatched, before extraction and the reply; an      *)
(* extraction miss, a failed parent fetch or a failed reply post leaves it  *)
(* there, and while it is there no later cycle of the process dispatches it *)
(* again.                                                                   *)
C35_DispatchStep ==
    /\ \A i \in Inst, m \in Msgs :
          dispatched'[i] = Append(dispatched[i], m) =>
              /\ m \notin Range(recentlyProcessed[i])
              /\ m \in Range(recentlyProcessed'[i])
    /\ \A i \in Inst, s \in Slots, k \in 1..MaxBatch :
          (PostFail(i, s, k) \/ ParentFail(i, s, k) \/ ParentOk(i, s, k)) =>
              /\ recentlyProcessed'[i] = recentlyProcessed[i]
              /\ co[i][s].batch[k] \in Range(recentlyProcessed'[i])
              /\ dispatched'[i] = dispatched[i]

C35_CachedBeforeDispatch ==
    /\ [](\A i \in Inst, s \in Slots, k \in 1..MaxBatch :
             (Awaiting(i, s, k, "post") \/ Awaiting(i, s, k, "parent")) =>
                 co[i][s].batch[k] \in Range(recentlyProcessed[i]))
    /\ [][C35_DispatchStep]_vars

(* message 1 (reply post failed) and message 4 (extraction missed) were     *)
(* dispatched by an earlier cycle; a later cycle of the same process went   *)
(* past message 1 without dispatching it                                    *)
C35_Witness ==
    \E i \in Inst, s \in Slots :
        /\ dispatched[i] = <<1, 4>>
        /\ NumReplies(1) = 0
        /\ NumReplies(4) = 0
        /\ co[i][s].batch = <<1, 2>>
        /\ co[i][s].st = <<"done", "thread">>

-----------------------------------------------------------------------------
(* C36: a reply the bot posted for trigger m, root-level post or comment,   *)
(* has m as its parent and the bot as its author, so it is among the direct *)
(* replies of m, and every later thread check of m whose fetch succeeds     *)
(* answers "already replied": m is then neither cached nor dispatched.      *)
C36_CheckStep ==
    \A i \in Inst, s \in Slots, k \in 1..MaxBatch :
        (ThreadOk(i, s, k) /\ \E r \in BagToSet(posted) : r.trigger = co[i][s].batch[k]) =>
            /\ dispatched'[i] = dispatched[i]
            /\ recentlyProcessed'[i] = recentlyProcessed[i]
            /\ posted' = posted

C36_GuardAndComposerAgree ==
    /\ [](\A r \in BagToSet(posted) :
             /\ r \in RepliesTo(r.trigger)
             /\ r.author \in DirectReplyAuthors(r.trigger)
             /\ hasAlreadyReplied(r.trigger, TRUE))
    /\ [][C36_CheckStep]_vars

(* comment 8 got its reply before a restart; the thread check of the next   *)
(* cycle found it and went on to message 3 without dispatching 8            *)
C36_Witness ==
    \E i \in Inst, s \in Slots :
        /\ isReply(8)
        /\ \E r \in BagToSet(posted) : r.trigger = 8
        /\ co[i][s].batch = <<8, 3>>
        /\ co[i][s].st = <<"done", "thread">>
        /\ recentlyProcessed[i] = <<>>
        /\ dispatched[i] = <<>>

-----------------------------------------------------------------------------
(* C37: the fallback scan tests candidates against the same cache the       *)
(* primary scan filled: a candidate the process dispatched before, the      *)
(* failed primary scan of the same cycle included, is not dispatched by the *)
(* fallback scan.                                                           *)
C37_FallbackStep ==
    \A i \in Inst, s \in Slots, k \in 1..MaxBatch :
        (co[i][s].phase = "fbloop" /\ (ThreadOk(i, s, k) \/ ThreadFail(i, s, k))) =>
            \/ /\ dispatched'[i] = Append(dispatched[i], co[i][s].batch[k])
               /\ co[i][s].batch[k] \notin Range(dispatched[i])
            \/ dispatched'[i] = dispatched[i]

C37_SharedGuard ==
    /\ [](\A i \in Inst : \A m \in Msgs : Count(m, dispatched[i]) <= 1)
    /\ [][C37_FallbackStep]_vars

(* the only cycle started so far dispatched message 1 from the search       *)
(* result <<1, 6, 4>>, failed at message 6, and its fallback scan of        *)
(* <<7, 5, 1>> dispatched message 5 and not message 1                       *)
C37_Witness ==
    \E i \in Inst :
        /\ cycles = 1
        /\ dispatched[i] = <<1, 5>>
        /\ recentlyProcessed[i] = <<1, 5>>
        /\ Running(i) = {}

-----------------------------------------------------------------------------
(* C38: FirehoseBot records a uri in processedPosts before the handler      *)
(* first awaits, so of the events with one uri only the first is handled,   *)
(* however the handlers interleave: a later event with that uri is dropped  *)
(* at delivery, also while the first is still being handled, and the uri    *)
(* gets at most one reply.                                                  *)
C38_OncePerUri ==
    /\ \A e \in FhEvents :
          handler[e].pc \notin {"new", "done"} => FhStream[e] \in processedPosts
    /\ \A d \in FhEvents, e \in FhEvents :
          (d < e /\ FhStream[d] = FhStream[e]) =>
              /\ handler[e].pc \in {"new", "done"}
              /\ handler[e].src = NoMsg
              /\ handler[e].sentAt < 0
    /\ \A m \in Msgs :
          /\ Cardinality({r \in BagToSet(fhPosted) : r.parent = m}) <= 1
          /\ \A r \in BagToSet(fhPosted) : CopiesIn(r, fhPosted) = 1

(* event 3 (uri 2 again) was delivered and dropped while the handler of     *)
(* event 1 (uri 2) was still awaiting a response                            *)
C38_Witness ==
    /\ FhStream[1] = FhStream[3]
    /\ handler[1].pc \notin {"new", "done"}
    /\ handler[3].pc = "done"
    /\ handler[3].src = NoMsg
    /\ FhStream[1] \in processedPosts

-----------------------------------------------------------------------------
(* C39: an event whose author is the bot's own account is dropped at        *)
(* delivery: its uri is not recorded in processedPosts, no fetch is made    *)
(* for it and it gets no reply, also when its text holds the tag word.      *)
C39_NoReplyToSelf ==
    /\ \A e \in FhEvents :
          Post(FhStream[e]).author = sessionDid =>
              /\ handler[e].pc \in {"new", "done"}
              /\ handler[e].src = NoMsg
              /\ handler[e].parent = "none"
              /\ FhStream[e] \notin processedPosts
    /\ \A r \in BagToSet(fhPosted) : Post(r.parent).author # sessionDid

(* event 4, a tagged comment of the bot's account under a post with a       *)
(* YouTube card, was delivered and dropped                                  *)
C39_Witness ==
    \E e \in FhEvents :
        /\ Post(FhStream[e]).author = sessionDid
        /\ fhHasTag(Post(FhStream[e]).text)
        /\ isYouTubeUrl(Post(Post(FhStream[e]).parent).embed)
        /\ handler[e].pc = "done"
        /\ FhStream[e] \notin processedPosts

====
